---- MODULE Spec2Model ----
(***************************************************************************)
(* Verification model of bingo_gen: the Frequency Planner (layout.py), the *)
(* heuristic card builder (builder/heuristic.py) and the universal card    *)
(* builder (core/builder.py).  The random source is modelled as            *)
(* nondeterminism: every shuffle may produce any permutation and every     *)
(* sample any selection without replacement.                               *)
(***************************************************************************)
EXTENDS Integers, Sequences, FiniteSets, TLC

(***************************************************************************)
(* Bounds of the model.                                                    *)
(***************************************************************************)
MaxR == 4
MaxT == 2
MaxM == 2
MaxN == 4
MaxAttempts == 2
\* Stand-ins for the loop limits 200 (card tries), 200 (row samples) and
\* 50 (shuffles) of heuristic.py: the loops run this many times in the model.
CardTries == 2
RowSamples == 2
Shuffles == 2
\* Stand-ins for the limits of core/builder.py and core/optimizer.py: 20 and
\* 100 attempts, 10 and 50 row attempts (fast and optimal strategy), and the
\* RowOptimizer's 20 shuffles.
FastAttempts == 1
OptimalAttempts == 2
FastRowAttempts == 1
OptimalRowAttempts == 2
OptimizerAttempts == 2
\* the longest unique_scope list of the calls of the pure functions
MaxScopeLen == 2
\* the card lists handed to the Verifier: cards, rows and columns of a card,
\* cell values
VerifyMaxCards == 2
VerifyMaxSide == 2
VerifyMaxValue == 2
\* the matrices handed to row_sets_of_card and col_sets_of_card
SetsMaxRows == 2
SetsMaxCols == 3
SetsMaxValue == 3
\* the calls of build_cards_bibd
BibdMaxR == 6
BibdMaxT == 4
BibdMaxM == 2
BibdMaxN == 3
\* the calls of build_cards_staged
StagedMaxR == 5
StagedMaxT == 2
StagedMaxM == 2
StagedMaxN == 2
\* Stand-ins for the limits of builder/staged.py: max_tries = 2,000,000 samples
\* for the pool, max_card_restarts = 200 and the 24 shuffles of a row
PoolTries == 4
MaxCardRestarts == 2
StagedShuffles == 2

(***************************************************************************)
(* Program constants.                                                      *)
(***************************************************************************)
BigScore == 1000000000
TopKFloor == 50
PermCap == 120
RowWidth == 4
min_distance == 0

VARIABLES
    pc,                 \* control position of the call
    params,             \* the call's arguments
    build_args,         \* the arguments of UniversalCardBuilder._build_cards
    target_freqs,       \* Frequency Planner output
    attempt,            \* index of the attempt loop
    remaining,          \* budget map
    cards,              \* cards accepted in the current attempt
    seen_row_sets,      \* row-set registry
    seen_col_sets,      \* column-set registry
    seen_card_hashes,   \* card-hash registry
    success,            \* the attempt's success flag
    candidates_master,  \* candidate order of the card in progress
    card_try,           \* index of the per-card restart loop
    row_sets_pool,      \* builder/staged.py: the row-set pool (pool in the source)
    tries,              \* builder/staged.py: samples drawn for the pool
    available,          \* builder/staged.py: pool entries not yet in a card
    opt_best,           \* core/optimizer.py: best ordering so far (best in the source)
    opt_best_score,     \* core/optimizer.py: its penalty (best_score in the source)
    opt_shuffled,       \* core/optimizer.py: the orderings shuffled so far
    result              \* the returned card list

vars == <<pc, params, build_args, target_freqs, attempt, remaining, cards, seen_row_sets,
          seen_col_sets, seen_card_hashes, success, candidates_master,
          card_try, row_sets_pool, tries, available, opt_best, opt_best_score,
          opt_shuffled, result>>

staged_locals == <<row_sets_pool, tries, available>>
optimizer_locals == <<opt_best, opt_best_score, opt_shuffled>>

(***************************************************************************)
(* Sequences, sets and sorting.                                            *)
(***************************************************************************)
None == <<>>

Range(s) == {s[i] : i \in DOMAIN s}

Min2(a, b) == IF a <= b THEN a ELSE b

Max2(a, b) == IF a >= b THEN a ELSE b

Abs(x) == IF x < 0 THEN -x ELSE x

RECURSIVE SumFn(_, _)
SumFn(f, D) ==
    IF D = {} THEN 0
    ELSE LET x == CHOOSE y \in D : TRUE IN f[x] + SumFn(f, D \ {x})

RECURSIVE SortedOfSet(_)
SortedOfSet(S) ==
    IF S = {} THEN <<>>
    ELSE LET lo == CHOOSE x \in S : \A y \in S : x <= y
         IN <<lo>> \o SortedOfSet(S \ {lo})

RECURSIVE InsertSorted(_, _)
InsertSorted(x, s) ==
    IF s = <<>> THEN <<x>>
    ELSE IF x <= Head(s) THEN <<x>> \o s
    ELSE <<Head(s)>> \o InsertSorted(x, Tail(s))

\* sorted(seq): ascending, duplicates kept
RECURSIVE Sorted(_)
Sorted(s) == IF s = <<>> THEN <<>> ELSE InsertSorted(Head(s), Sorted(Tail(s)))

\* the sequences of k distinct elements of the set S
RECURSIVE Arrangements(_, _)
Arrangements(S, k) ==
    IF k = 0 THEN {<<>>}
    ELSE UNION {{<<x>> \o a : a \in Arrangements(S \ {x}, k - 1)} : x \in S}

\* every ordering of the set S
Orderings(S) == Arrangements(S, Cardinality(S))

\* rng.sample(seq, k): k positions without replacement, in any order;
\* rng.shuffle(seq) leaves any of SampleOf(seq, Len(seq))
SampleOf(seq, k) ==
    {[i \in 1..k |-> seq[p[i]]] : p \in Arrangements(DOMAIN seq, k)}

Flatten(mx) ==
    LET RECURSIVE Cat(_)
        Cat(i) == IF i > Len(mx) THEN <<>> ELSE mx[i] \o Cat(i + 1)
    IN Cat(1)

(***************************************************************************)
(* uniqueness.py                                                           *)
(***************************************************************************)
row_sets_of_card(mx) == [i \in DOMAIN mx |-> Sorted(mx[i])]

\* the columns as they stand in the matrix, not sorted
col_sets_of_card_unsorted(mx) ==
    IF mx = <<>> THEN <<>>
    ELSE [j \in 1..Len(mx[1]) |-> [i \in 1..Len(mx) |-> mx[i][j]]]

col_sets_of_card(mx) ==
    IF mx = <<>> THEN <<>>
    ELSE [j \in 1..Len(mx[1]) |-> Sorted([i \in 1..Len(mx) |-> mx[i][j]])]

\* json.dumps(matrix): the rows in order, each opened by the separator 0
\* (cells are >= 1); sha256 is taken to be collision free.
matrix_hash(mx) ==
    LET RECURSIVE Dump(_)
        Dump(i) == IF i > Len(mx) THEN <<>> ELSE <<0>> \o mx[i] \o Dump(i + 1)
    IN Dump(1)

(***************************************************************************)
(* layout.py: the Frequency Planner                                        *)
(***************************************************************************)
Modes == {"strict", "near"}

\* planner variants: the remainder handed out to one number too few, and
\* strict mode rounding up
build_global_frequencies_short(R, T, m, n, mode) ==
    LET P == T * m * n
        base == P \div R
        remainder == P % R
    IN IF mode = "strict"
       THEN [x \in 1..R |-> base]
       ELSE [x \in 1..R |-> base + (IF x < remainder THEN 1 ELSE 0)]

build_global_frequencies_ceil(R, T, m, n, mode) ==
    LET P == T * m * n
        base == P \div R
        remainder == P % R
    IN IF mode = "strict"
       THEN [x \in 1..R |-> base + (IF remainder # 0 THEN 1 ELSE 0)]
       ELSE [x \in 1..R |-> base + (IF x <= remainder THEN 1 ELSE 0)]

build_global_frequencies(R, T, m, n, mode) ==
    LET P == T * m * n
        base == P \div R
        remainder == P % R
    IN IF mode = "strict"
       THEN [x \in 1..R |-> base]
       ELSE [x \in 1..R |-> base + (IF x <= remainder THEN 1 ELSE 0)]

\* feasibility.py
compute_near_uniform_targets(R, T, m, n) ==
    LET P == T * m * n IN <<P \div R, P % R>>

(***************************************************************************)
(* rng.py                                                                  *)
(***************************************************************************)
SupportedEngines == {"py_random", "numpy_pcg64"}

(***************************************************************************)
(* builder/heuristic.py: helpers nested in build_cards                     *)
(***************************************************************************)
horizontal_consecutive_penalty(arr) ==
    Cardinality({i \in 1..(Len(arr) - 1) : Abs(arr[i] - arr[i + 1]) = 1})

\* the anchor term of the score: cells differing by exactly 1 from the
\* anchor above them (0 when anchors is None)
AnchorPenalty(row, anchors) ==
    IF anchors = None THEN 0
    ELSE Cardinality({j \in DOMAIN anchors : Abs(row[j] - anchors[j]) = 1})

RowScore(row, anchors) ==
    horizontal_consecutive_penalty(row) + AnchorPenalty(row, anchors)

\* one pass of the shuffle loop over every state it can be in; scored holds
\* every shuffle of the row with its score
OrderStep(S, scored) ==
    {IF s.done THEN s
     ELSE IF c[2] < s.best_score
     THEN [best |-> c[1], best_score |-> c[2], done |-> c[2] = 0]
     ELSE s
     : s \in S, c \in scored}

RECURSIVE OrderLoop(_, _, _)
OrderLoop(k, S, scored) ==
    IF k = 0 THEN S ELSE OrderLoop(k - 1, OrderStep(S, scored), scored)

\* the orderings order_row_min_consecutive can return
order_row_min_consecutive(row, anchors) ==
    LET shuffles == SampleOf(row, Len(row))
        scored == {<<c, RowScore(c, anchors)>> : c \in shuffles}
    IN {s.best : s \in OrderLoop(Shuffles,
                    {[best |-> b, best_score |-> BigScore, done |-> FALSE] :
                        b \in shuffles},
                    scored)}

RowSetSeen(row, unique_scope, seen) ==
    "row_sets" \in unique_scope /\ Sorted(row) \in seen

\* one pass of the sample loop of choose_row; scored holds what a sample that
\* passes the checks can be turned into, with its score; a sample that fails
\* the checks is skipped
ChooseStep(S, scored, MaySkip) ==
    {IF s.done THEN s
     ELSE IF c[2] < s.best_score
     THEN [picked |-> c[1], best_score |-> c[2], done |-> c[2] = 0]
     ELSE s
     : s \in S, c \in scored}
    \cup (IF MaySkip THEN S ELSE {})

RECURSIVE ChooseLoop(_, _, _, _)
ChooseLoop(k, S, scored, MaySkip) ==
    IF k = 0 THEN S
    ELSE ChooseLoop(k - 1, ChooseStep(S, scored, MaySkip), scored, MaySkip)

\* fallback of choose_row: the first contiguous slice that passes the checks
FallbackSlice(pool, n, unique_scope, seen) ==
    LET last == Max2(1, Len(pool) - n + 1)
        ok == {i \in 1..last : ~RowSetSeen(SubSeq(pool, i, i + n - 1), unique_scope, seen)}
    IN IF ok = {} THEN None
       ELSE SubSeq(pool, CHOOSE i \in ok : \A j \in ok : i <= j,
                         (CHOOSE i \in ok : \A j \in ok : i <= j) + n - 1)

\* every value choose_row(pool, anchors) can return (None included)
choose_row(pool, anchors, n, unique_scope, seen) ==
    IF Len(pool) < n THEN {None}
    ELSE LET top_k == Min2(Len(pool), Max2(2 * n, TopKFloor))
             top == SubSeq(pool, 1, top_k)
             samples == SampleOf(top, n)
             passing == {c \in samples : ~RowSetSeen(c, unique_scope, seen)}
             \* a sample is copied and shuffled before it is scored, so what it
             \* can be turned into depends on its values only
             Ordered == UNION {order_row_min_consecutive(SortedOfSet(V), anchors) :
                                 V \in {Range(c) : c \in passing}}
             scored == {<<o, RowScore(o, anchors)>> : o \in Ordered}
             final == ChooseLoop(RowSamples,
                          {[picked |-> None, best_score |-> BigScore, done |-> FALSE]},
                          scored, passing # samples)
             slice == FallbackSlice(pool, n, unique_scope, seen)
         IN {s.picked : s \in {f \in final : f.picked # None}}
            \cup (IF \E f \in final : f.picked = None
                  THEN (IF slice = None THEN {None}
                        ELSE order_row_min_consecutive(slice, anchors))
                  ELSE {})

\* lines 159-172: the rows of one card try, built top to bottom, each from
\* the candidates not yet used in the card; None when a row cannot be chosen
RECURSIVE BuildRows(_, _, _, _, _, _)
BuildRows(mx, candidates, m, n, unique_scope, seen) ==
    IF Len(mx) = m THEN {mx}
    ELSE LET used_in_card == Range(Flatten(mx))
             pool == SelectSeq(candidates, LAMBDA x : x \notin used_in_card)
             anchors == IF Len(mx) = 0 THEN None ELSE mx[1]
         IN UNION {IF row = None THEN {None}
                   ELSE BuildRows(Append(mx, row), candidates, m, n, unique_scope, seen)
                   : row \in choose_row(pool, anchors, n, unique_scope, seen)}

\* itertools.permutations(range(n)) as a list: lexicographic order
\* (positions are numbered from 1 here)
RECURSIVE PermsLexOf(_)
PermsLexOf(S) ==
    IF S = {} THEN << <<>> >>
    ELSE LET srt == SortedOfSet(S)
             RECURSIVE From(_)
             From(k) ==
                 IF k > Len(srt) THEN <<>>
                 ELSE LET rest == PermsLexOf(S \ {srt[k]})
                      IN [i \in 1..Len(rest) |-> <<srt[k]>> \o rest[i]] \o From(k + 1)
         IN From(1)

\* perms = list(permutations(range(n))), cut to its first 120 entries
RowPerms(n) ==
    LET perms == PermsLexOf(1..n)
    IN IF Len(perms) > PermCap THEN SubSeq(perms, 1, PermCap) ELSE perms

\* perm_combo (one index into perms for each of the rows 2..m) leaves no
\* column whose sorted tuple is in seen_col_sets
ColsOk(mx, perms, combo, seen) ==
    \A j \in 1..Len(mx[1]) :
        Sorted([i \in 1..Len(mx) |->
                  IF i = 1 THEN mx[1][j] ELSE mx[i][perms[combo[i - 1]][j]]]) \notin seen

\* order of itertools.product: the first row's permutation varies slowest
ComboLeq(c, d) ==
    \/ c = d
    \/ \E k \in DOMAIN c : c[k] < d[k] /\ \A l \in 1..(k - 1) : c[l] = d[l]

\* the column adjustment: the matrix with rows 2..m re-permuted by the first
\* perm_combo that passes, or None when no perm_combo passes
AdjustColumns(mx, seen) ==
    LET m == Len(mx)
        n == Len(mx[1])
        perms == RowPerms(n)
        ok == {c \in [1..(m - 1) -> 1..Len(perms)] : ColsOk(mx, perms, c, seen)}
    IN IF ok = {} THEN None
       ELSE LET assigned == CHOOSE c \in ok : \A d \in ok : ComboLeq(c, d)
            IN [i \in 1..m |->
                  IF i = 1 THEN mx[1]
                  ELSE [j \in 1..n |-> mx[i][perms[assigned[i - 1]][j]]]]

\* the matrix after the column adjustment (None: restart this card)
AfterColumns(mx, unique_scope, seen) ==
    IF Len(mx) >= 2 /\ "col_sets" \in unique_scope
    THEN AdjustColumns(mx, seen)
    ELSE mx

\* the global uniqueness checks before the commit
RowCheckFails(mx, unique_scope, seen) ==
    "row_sets" \in unique_scope
    /\ \E i \in DOMAIN row_sets_of_card(mx) : row_sets_of_card(mx)[i] \in seen

ColCheckSkipped(mx, unique_scope, seen) == FALSE

ColCheckFails(mx, unique_scope, seen) ==
    "col_sets" \in unique_scope
    /\ \E j \in DOMAIN col_sets_of_card(mx) : col_sets_of_card(mx)[j] \in seen

HashCheckFails(mx, seen) == matrix_hash(mx) \in seen

\* the registry updates of the commit: only for the scopes requested
RegisterRowsNever(seen, mx, unique_scope) == seen

RegisterRows(seen, mx, unique_scope) ==
    IF "row_sets" \in unique_scope THEN seen \cup Range(row_sets_of_card(mx)) ELSE seen

RegisterColsNever(seen, mx, unique_scope) == seen

RegisterColsAlways(seen, mx, unique_scope) ==
    seen \cup Range(col_sets_of_card(mx))

RegisterCols(seen, mx, unique_scope) ==
    IF "col_sets" \in unique_scope THEN seen \cup Range(col_sets_of_card(mx)) ELSE seen

\* line 78: the numbers with budget left
CandidatesLoose(rem, R) == {x \in 1..R : rem[x] >= 0}

CandidatesAll(rem, R) == 1..R

Candidates(rem, R) == {x \in 1..R : rem[x] > 0}

\* candidates_master shuffled and left unsorted
CandidateOrdersUnsorted(rem, R) == Orderings(Candidates(rem, R))

\* candidates_master after shuffle and sort: larger remaining budget first,
\* ties in any order
CandidateOrders(rem, R) ==
    {s \in Orderings(Candidates(rem, R)) :
        \A i \in 1..(Len(s) - 1) : rem[s[i]] >= rem[s[i + 1]]}

\* rows of the fast path: chosen[k : k + n] for k = 0, n, 2n, ...
SplitRowsStuck(chosen, m, n) == [i \in 1..m |-> SubSeq(chosen, 1, n)]

SplitRows(chosen, m, n) ==
    [i \in 1..m |-> SubSeq(chosen, (i - 1) * n + 1, i * n)]

DecrementTwice(rem, S) == [x \in DOMAIN rem |-> IF x \in S THEN rem[x] - 2 ELSE rem[x]]

\* for x in chosen / used_in_card: remaining[x] -= 1
Decrement(rem, S) == [x \in DOMAIN rem |-> IF x \in S THEN rem[x] - 1 ELSE rem[x]]

(***************************************************************************)
(* core/optimizer.py: RowOptimizer                                         *)
(***************************************************************************)
calculate_horizontal_penalty(row) ==
    SumFn([i \in 1..(Len(row) - 1) |->
              IF Abs(row[i] - row[i + 1]) = 1 THEN 2
              ELSE IF Abs(row[i] - row[i + 1]) = 2 THEN 1 ELSE 0],
          1..(Len(row) - 1))

calculate_vertical_penalty(row, anchors) ==
    SumFn([i \in DOMAIN anchors |->
              IF i <= Len(row) /\ Abs(row[i] - anchors[i]) = 1 THEN 1 ELSE 0],
          DOMAIN anchors)

calculate_combined_penalty(row, anchors) ==
    calculate_horizontal_penalty(row) + calculate_vertical_penalty(row, anchors)

\* the score optimize uses: horizontal only when there are no anchors
OptimizerScore(row, anchors) ==
    IF anchors = None
    THEN calculate_horizontal_penalty(row)
    ELSE calculate_combined_penalty(row, anchors)

\* one pass of the shuffle loop over the set S of loop states; scored holds
\* every shuffle of the row with its score
OptimizeStep(S, scored) ==
    UNION {IF s.stopped THEN {s}
           ELSE {IF c[2] < s.best_score
                 THEN [best |-> c[1], best_score |-> c[2], stopped |-> c[2] = 0]
                 ELSE s : c \in scored} : s \in S}

RECURSIVE OptimizeLoop(_, _, _)
OptimizeLoop(k, S, scored) ==
    IF k = 0 THEN S ELSE OptimizeLoop(k - 1, OptimizeStep(S, scored), scored)

\* the rows optimize(row, anchors, rng) can return
optimize(row, anchors) ==
    LET scored == {<<c, OptimizerScore(c, anchors)>> : c \in SampleOf(row, Len(row))}
        first  == [best |-> row, best_score |-> OptimizerScore(row, anchors),
                   stopped |-> FALSE]
    IN {s.best : s \in OptimizeLoop(OptimizerAttempts, {first}, scored)}

(***************************************************************************)
(* core/constraints.py: ConstraintChecker                                  *)
(***************************************************************************)
verify_row_distances(row) ==
    \A i \in DOMAIN row : \A j \in DOMAIN row :
        i < j => ~(Abs(row[i] - row[j]) < min_distance)

verify_vertical_distances(row, anchors) ==
    \A i \in DOMAIN anchors :
        ~(i <= Len(row) /\ Abs(row[i] - anchors[i]) < min_distance)

verify_row(row, anchors, strict) ==
    /\ Cardinality(Range(row)) = Len(row)
    /\ min_distance > 0 =>
          /\ verify_row_distances(row)
          /\ anchors # None => verify_vertical_distances(row, anchors)

(***************************************************************************)
(* core/builder.py: the pure parts of UniversalCardBuilder                 *)
(***************************************************************************)
\* candidates.sort(key=(remaining[x], x)): the shuffle before it has no effect
RECURSIVE SortByRemaining(_, _)
SortByRemaining(S, rem) ==
    IF S = {} THEN <<>>
    ELSE LET x == CHOOSE y \in S :
                     \A z \in S : rem[y] < rem[z] \/ (rem[y] = rem[z] /\ y <= z)
         IN <<x>> \o SortByRemaining(S \ {x}, rem)

\* the rows one pass of the loop of _choose_row can return
ChooseRowReturns(pool, anchors, seen, strict) ==
    IF Len(pool) < RowWidth THEN {}
    ELSE UNION {{o \in optimize(cand, anchors) : verify_row(o, anchors, strict)} :
                   cand \in {c \in SampleOf(pool, RowWidth) : Sorted(c) \notin seen}}

\* whether one pass of the loop of _choose_row can go on to the next pass
ChooseRowContinues(pool, anchors, seen, strict) ==
    \/ Len(pool) < RowWidth
    \/ \E cand \in SampleOf(pool, RowWidth) :
          \/ Sorted(cand) \in seen
          \/ \E o \in optimize(cand, anchors) : ~verify_row(o, anchors, strict)

RECURSIVE ChooseRowLoop(_, _, _)
ChooseRowLoop(k, returns, continues) ==
    IF k = 0 THEN {None}
    ELSE returns \cup (IF continues THEN ChooseRowLoop(k - 1, returns, continues) ELSE {})

\* the outcomes of _choose_row: a row, or None
Universal_choose_row(pool, anchors, seen, max_attempts, strict) ==
    ChooseRowLoop(max_attempts,
                  ChooseRowReturns(pool, anchors, seen, strict),
                  ChooseRowContinues(pool, anchors, seen, strict))

\* the row loop of _build_single_card: the matrices it can build, or None
RECURSIVE UniversalRows(_, _, _, _, _, _, _)
UniversalRows(mx, candidates, m, n, seen, max_row_attempts, strict) ==
    IF Len(mx) = m THEN {mx}
    ELSE LET used == Range(Flatten(mx))
             pool == SelectSeq(candidates, LAMBDA x : x \notin used)
         IN IF Len(pool) < n THEN {None}
            ELSE LET anchors == IF mx = <<>> THEN None ELSE mx[1]
                     rows == Universal_choose_row(pool, anchors, seen,
                                                  max_row_attempts, strict)
                 IN UNION {IF row = None THEN {None}
                           ELSE UniversalRows(Append(mx, row), candidates, m, n, seen,
                                              max_row_attempts, strict) : row \in rows}

verify_card_constraints(mx, seen_rows, seen_cols, seen_hashes, unique_scope) ==
    /\ ~("row_sets" \in unique_scope
         /\ \E i \in DOMAIN row_sets_of_card(mx) : row_sets_of_card(mx)[i] \in seen_rows)
    /\ ~("col_sets" \in unique_scope
         /\ \E j \in DOMAIN col_sets_of_card(mx) : col_sets_of_card(mx)[j] \in seen_cols)
    /\ matrix_hash(mx) \notin seen_hashes

\* remaining[num] -= 1 for every cell of the card
DecrementCells(rem, card) ==
    [x \in DOMAIN rem |->
        rem[x] - Cardinality({i \in DOMAIN Flatten(card) : Flatten(card)[i] = x})]

(***************************************************************************)
(* The calls that are modelled.                                            *)
(***************************************************************************)
Scopes == SUBSET {"row_sets", "col_sets"}

HeuristicCalls ==
    [builder : {"heuristic"}, R : 1..MaxR, T : 1..MaxT, m : 1..MaxM, n : 1..MaxN,
     uniformity : Modes \cup {"exact"}, unique_scope : Scopes,
     rng_engine : {"py_random", "mt19937"}, max_attempts : 0..MaxAttempts]

Strategies == {"auto", "fast", "optimal"}

UniversalCalls ==
    [builder : {"universal"}, strategy : Strategies \cup {"heuristic"},
     R : 1..MaxR, T : 1..MaxT, m : 1..MaxM, n : 1..MaxN,
     uniformity : Modes \cup {"exact"}, unique_scope : Scopes,
     rng_engine : {"py_random", "mt19937"}]

\* core/builder.py lines 76-86: the arguments the strategies pass to _build_cards
NoArgs ==
    [phase |-> "none", max_attempts |-> 0, max_row_attempts |-> 0,
     strict_constraints |-> FALSE]

FastArgs ==
    [phase |-> "fast", max_attempts |-> FastAttempts,
     max_row_attempts |-> FastRowAttempts, strict_constraints |-> FALSE]

OptimalArgs ==
    [phase |-> "optimal", max_attempts |-> OptimalAttempts,
     max_row_attempts |-> OptimalRowAttempts, strict_constraints |-> TRUE]

Init ==
    /\ pc = "start"
    /\ (params \in HeuristicCalls \/ params \in UniversalCalls)
    /\ build_args = NoArgs
    /\ target_freqs = <<>>
    /\ attempt = 0
    /\ remaining = <<>>
    /\ cards = <<>>
    /\ seen_row_sets = {}
    /\ seen_col_sets = {}
    /\ seen_card_hashes = {}
    /\ success = TRUE
    /\ candidates_master = <<>>
    /\ card_try = 0
    /\ row_sets_pool = <<>>
    /\ tries = 0
    /\ available = {}
    /\ opt_best = <<>>
    /\ opt_best_score = 0
    /\ opt_shuffled = <<>>
    /\ result = <<>>

run_state == <<remaining, cards, seen_row_sets, seen_col_sets, seen_card_hashes>>
card_locals == <<candidates_master, card_try>>

(***************************************************************************)
(* builder/heuristic.py: build_cards                                       *)
(***************************************************************************)
\* lines 29-35: the argument check and the Frequency Planner call
H_Validate ==
    /\ pc = "start"
    /\ params.builder = "heuristic"
    /\ IF params.R < params.m * params.n
       THEN pc' = "ValueError" /\ UNCHANGED target_freqs
       ELSE IF params.uniformity \notin Modes
       THEN pc' = "ValueError" /\ UNCHANGED target_freqs
       ELSE /\ target_freqs' = build_global_frequencies(params.R, params.T, params.m,
                                                        params.n, params.uniformity)
            /\ pc' = "attempt_loop"
    /\ UNCHANGED <<params, staged_locals, optimizer_locals, build_args, attempt, run_state, success, card_locals, result>>

\* the head of an attempt with registries that outlive the attempt
H_AttemptStartSharedRegistries ==
    /\ pc = "attempt_loop"
    /\ params.builder = "heuristic"
    /\ attempt < params.max_attempts
    /\ IF params.rng_engine \notin SupportedEngines
       THEN pc' = "ValueError" /\ UNCHANGED <<run_state, success>>
       ELSE /\ remaining' = target_freqs
            /\ cards' = <<>>
            /\ success' = TRUE
            /\ pc' = "card_loop"
            /\ UNCHANGED <<seen_row_sets, seen_col_sets, seen_card_hashes>>
    /\ UNCHANGED <<params, staged_locals, optimizer_locals, build_args, target_freqs, attempt, card_locals, result>>

\* lines 65-75: the head of an attempt: a new random source and a new run state
H_AttemptStart ==
    /\ pc = "attempt_loop"
    /\ params.builder = "heuristic"
    /\ attempt < params.max_attempts
    /\ IF params.rng_engine \notin SupportedEngines
       THEN pc' = "ValueError" /\ UNCHANGED <<run_state, success>>
       ELSE /\ remaining' = target_freqs
            /\ cards' = <<>>
            /\ seen_row_sets' = {}
            /\ seen_col_sets' = {}
            /\ seen_card_hashes' = {}
            /\ success' = TRUE
            /\ pc' = "card_loop"
    /\ UNCHANGED <<params, staged_locals, optimizer_locals, build_args, target_freqs, attempt, card_locals, result>>

\* line 245: the attempt loop is used up
H_RaiseRuntimeError ==
    /\ pc = "attempt_loop"
    /\ params.builder = "heuristic"
    /\ attempt >= params.max_attempts
    /\ pc' = "RuntimeError"
    /\ UNCHANGED <<params, staged_locals, optimizer_locals, build_args, target_freqs, attempt, run_state, success, card_locals, result>>

\* lines 76-85 and 155-157: the head of the card loop, uniqueness requested
H_CardStart ==
    /\ pc = "card_loop"
    /\ params.builder = "heuristic"
    /\ Len(cards) < params.T
    /\ params.unique_scope # {}
    /\ IF Cardinality(Candidates(remaining, params.R)) < params.m * params.n
       THEN /\ success' = FALSE
            /\ pc' = "attempt_end"
            /\ UNCHANGED candidates_master
       ELSE /\ candidates_master' \in CandidateOrders(remaining, params.R)
            /\ pc' = "card_try"
            /\ UNCHANGED success
    /\ card_try' = 0
    /\ UNCHANGED <<params, staged_locals, optimizer_locals, build_args, target_freqs, attempt, run_state, result>>

\* lines 76-105: one card of the fast path (no uniqueness requested)
H_FastPath ==
    /\ pc = "card_loop"
    /\ params.builder = "heuristic"
    /\ Len(cards) < params.T
    /\ params.unique_scope = {}
    /\ IF Cardinality(Candidates(remaining, params.R)) < params.m * params.n
       THEN /\ success' = FALSE
            /\ pc' = "attempt_end"
            /\ UNCHANGED <<remaining, cards>>
       ELSE \E cm \in CandidateOrders(remaining, params.R) :
            \E chosen \in SampleOf(SubSeq(cm, 1, params.m * params.n), params.m * params.n) :
               LET mx == SplitRows(chosen, params.m, params.n)
               IN IF \E i \in 1..params.m : Cardinality(Range(mx[i])) # Len(mx[i])
                  THEN /\ success' = FALSE
                       /\ pc' = "attempt_end"
                       /\ UNCHANGED <<remaining, cards>>
                  ELSE /\ remaining' = Decrement(remaining, Range(chosen))
                       /\ cards' = Append(cards, mx)
                       /\ pc' = "card_loop"
                       /\ UNCHANGED success
    /\ UNCHANGED <<params, staged_locals, optimizer_locals, build_args, target_freqs, attempt, seen_row_sets, seen_col_sets,
                   seen_card_hashes, card_locals, result>>

\* lines 158-236: one try of the per-card restart loop: the rows (choose_row),
\* the column adjustment, the global uniqueness checks and the commit; a try
\* that fails changes nothing but the loop index
H_CardTry ==
    /\ pc = "card_try"
    /\ params.builder = "heuristic"
    /\ card_try < CardTries
    /\ \E built \in BuildRows(<<>>, candidates_master, params.m, params.n,
                              params.unique_scope, seen_row_sets) :
         LET adjusted == IF built = None THEN None
                         ELSE AfterColumns(built, params.unique_scope, seen_col_sets)
         IN IF \/ adjusted = None
               \/ RowCheckFails(adjusted, params.unique_scope, seen_row_sets)
               \/ ColCheckFails(adjusted, params.unique_scope, seen_col_sets)
               \/ HashCheckFails(adjusted, seen_card_hashes)
            THEN /\ card_try' = card_try + 1
                 /\ UNCHANGED <<pc, run_state, candidates_master>>
            ELSE /\ remaining' = Decrement(remaining, Range(Flatten(built)))
                 /\ cards' = Append(cards, adjusted)
                 /\ seen_row_sets' = RegisterRows(seen_row_sets, adjusted, params.unique_scope)
                 /\ seen_col_sets' = RegisterCols(seen_col_sets, adjusted, params.unique_scope)
                 /\ seen_card_hashes' = seen_card_hashes \cup {matrix_hash(adjusted)}
                 /\ pc' = "card_loop"
                 /\ candidates_master' = <<>>
                 /\ card_try' = 0
    /\ UNCHANGED <<params, staged_locals, optimizer_locals, build_args, target_freqs, attempt, success, result>>

\* the per-card restart loop without its bound: the tries start over
H_CardFailedStartsOver ==
    /\ pc = "card_try"
    /\ params.builder = "heuristic"
    /\ card_try >= CardTries
    /\ card_try' = 0
    /\ UNCHANGED <<pc, params, staged_locals, optimizer_locals, build_args, target_freqs,
                   attempt, run_state, success, candidates_master, result>>

\* lines 238-240: the card was not built in any of its tries
H_CardFailed ==
    /\ pc = "card_try"
    /\ params.builder = "heuristic"
    /\ card_try >= CardTries
    /\ success' = FALSE
    /\ pc' = "attempt_end"
    /\ candidates_master' = <<>>
    /\ card_try' = 0
    /\ UNCHANGED <<params, staged_locals, optimizer_locals, build_args, target_freqs, attempt, run_state, result>>

\* the card loop ran T times
H_CardsDone ==
    /\ pc = "card_loop"
    /\ params.builder = "heuristic"
    /\ Len(cards) >= params.T
    /\ pc' = "attempt_end"
    /\ UNCHANGED <<params, staged_locals, optimizer_locals, build_args, target_freqs, attempt, run_state, success, card_locals, result>>

\* the end of an attempt with the two conditions of the return joined by "or"
H_AttemptEndEither ==
    /\ pc = "attempt_end"
    /\ params.builder = "heuristic"
    /\ IF success \/ SumFn(remaining, DOMAIN remaining) = 0
       THEN /\ result' = cards
            /\ pc' = "returned"
            /\ UNCHANGED attempt
       ELSE /\ attempt' = attempt + 1
            /\ pc' = "attempt_loop"
            /\ UNCHANGED result
    /\ UNCHANGED <<params, staged_locals, optimizer_locals, build_args, target_freqs, run_state, success, card_locals>>

\* lines 242-243: the end of an attempt: return the cards or go on
H_AttemptEnd ==
    /\ pc = "attempt_end"
    /\ params.builder = "heuristic"
    /\ IF success /\ SumFn(remaining, DOMAIN remaining) = 0
       THEN /\ result' = cards
            /\ pc' = "returned"
            /\ UNCHANGED attempt
       ELSE /\ attempt' = attempt + 1
            /\ pc' = "attempt_loop"
            /\ UNCHANGED result
    /\ UNCHANGED <<params, staged_locals, optimizer_locals, build_args, target_freqs, run_state, success, card_locals>>

(***************************************************************************)
(* core/builder.py: UniversalCardBuilder                                   *)
(***************************************************************************)
\* lines 57-66 and 76-86: build picks the strategy's arguments of _build_cards
U_Build ==
    /\ pc = "start"
    /\ params.builder = "universal"
    /\ IF params.strategy \in {"auto", "fast"}
       THEN build_args' = FastArgs /\ pc' = "build_cards"
       ELSE IF params.strategy = "optimal"
       THEN build_args' = OptimalArgs /\ pc' = "build_cards"
       ELSE pc' = "ValueError" /\ UNCHANGED build_args
    /\ UNCHANGED <<params, staged_locals, optimizer_locals, target_freqs, attempt, run_state, success, card_locals, result>>

\* lines 97-108: the argument check and the Frequency Planner call of _build_cards
U_Validate ==
    /\ pc = "build_cards"
    /\ params.builder = "universal"
    /\ IF params.R < params.m * params.n
       THEN pc' = "ValueError" /\ UNCHANGED target_freqs
       ELSE IF params.uniformity \notin Modes
       THEN pc' = "ValueError" /\ UNCHANGED target_freqs
       ELSE /\ target_freqs' = build_global_frequencies(params.R, params.T, params.m,
                                                        params.n, params.uniformity)
            /\ pc' = "attempt_loop"
    /\ attempt' = 0
    /\ UNCHANGED <<params, staged_locals, optimizer_locals, build_args, run_state, success, card_locals, result>>

\* lines 110-121: the head of an attempt
U_AttemptStart ==
    /\ pc = "attempt_loop"
    /\ params.builder = "universal"
    /\ attempt < build_args.max_attempts
    /\ IF params.rng_engine \notin SupportedEngines
       THEN pc' = "ValueError" /\ UNCHANGED <<run_state, success>>
       ELSE /\ remaining' = target_freqs
            /\ cards' = <<>>
            /\ seen_row_sets' = {}
            /\ seen_col_sets' = {}
            /\ seen_card_hashes' = {}
            /\ success' = TRUE
            /\ pc' = "card_loop"
    /\ UNCHANGED <<params, staged_locals, optimizer_locals, build_args, target_freqs, attempt, card_locals, result>>

\* line 164: the attempt loop of _build_cards is used up
U_RaiseRuntimeError ==
    /\ pc = "attempt_loop"
    /\ params.builder = "universal"
    /\ attempt >= build_args.max_attempts
    /\ pc' = "build_cards_raised"
    /\ UNCHANGED <<params, staged_locals, optimizer_locals, build_args, target_freqs, attempt, run_state, success,
                   card_locals, result>>

\* lines 70-74: _build_adaptive catches the RuntimeError of the fast strategy
U_Fallback ==
    /\ pc = "build_cards_raised"
    /\ params.builder = "universal"
    /\ params.strategy = "auto" /\ build_args.phase = "fast"
    /\ build_args' = OptimalArgs
    /\ pc' = "build_cards"
    /\ UNCHANGED <<params, staged_locals, optimizer_locals, target_freqs, attempt, run_state, success, card_locals, result>>

\* the RuntimeError of _build_cards leaves build
U_Propagate ==
    /\ pc = "build_cards_raised"
    /\ params.builder = "universal"
    /\ ~(params.strategy = "auto" /\ build_args.phase = "fast")
    /\ pc' = "RuntimeError"
    /\ UNCHANGED <<params, staged_locals, optimizer_locals, build_args, target_freqs, attempt, run_state, success,
                   card_locals, result>>

\* lines 123-133: the card loop calls _build_single_card
U_CardLoop ==
    /\ pc = "card_loop"
    /\ params.builder = "universal"
    /\ Len(cards) < params.T
    /\ pc' = "card_try"
    /\ card_try' = 0
    /\ UNCHANGED <<params, staged_locals, optimizer_locals, build_args, target_freqs, attempt, run_state, success,
                   candidates_master, result>>

\* lines 179-208: one pass of the loop of _build_single_card, and lines
\* 134-152 for the card it returns
U_CardAttempt ==
    /\ pc = "card_try"
    /\ params.builder = "universal"
    /\ card_try < build_args.max_row_attempts
    /\ \E built \in UniversalRows(<<>>,
                                  SortByRemaining(Candidates(remaining, params.R), remaining),
                                  params.m, params.n, seen_row_sets,
                                  build_args.max_row_attempts,
                                  build_args.strict_constraints) :
         IF built = None
         THEN /\ success' = FALSE
              /\ pc' = "attempt_end"
              /\ card_try' = 0
              /\ UNCHANGED run_state
         ELSE IF verify_card_constraints(built, seen_row_sets, seen_col_sets,
                                         seen_card_hashes, params.unique_scope)
         THEN /\ cards' = Append(cards, built)
              /\ remaining' = DecrementCells(remaining, built)
              /\ seen_row_sets' = RegisterRows(seen_row_sets, built, params.unique_scope)
              /\ seen_col_sets' = RegisterCols(seen_col_sets, built, params.unique_scope)
              /\ seen_card_hashes' = seen_card_hashes \cup {matrix_hash(built)}
              /\ pc' = "card_loop"
              /\ card_try' = 0
              /\ UNCHANGED success
         ELSE /\ card_try' = card_try + 1
              /\ UNCHANGED <<pc, run_state, success>>
    /\ UNCHANGED <<params, staged_locals, optimizer_locals, build_args, target_freqs, attempt, candidates_master, result>>

\* line 213: _build_single_card gives up, and lines 135-137
U_CardGiveUp ==
    /\ pc = "card_try"
    /\ params.builder = "universal"
    /\ card_try >= build_args.max_row_attempts
    /\ success' = FALSE
    /\ pc' = "attempt_end"
    /\ card_try' = 0
    /\ UNCHANGED <<params, staged_locals, optimizer_locals, build_args, target_freqs, attempt, run_state,
                   candidates_master, result>>

\* the card loop ran T times
U_CardsDone ==
    /\ pc = "card_loop"
    /\ params.builder = "universal"
    /\ Len(cards) >= params.T
    /\ pc' = "attempt_end"
    /\ UNCHANGED <<params, staged_locals, optimizer_locals, build_args, target_freqs, attempt, run_state, success,
                   card_locals, result>>

\* lines 154-162: the end of an attempt: return the cards or go on
U_AttemptEnd ==
    /\ pc = "attempt_end"
    /\ params.builder = "universal"
    /\ IF success /\ SumFn(remaining, DOMAIN remaining) = 0
       THEN /\ result' = cards
            /\ pc' = "returned"
            /\ UNCHANGED attempt
       ELSE /\ attempt' = attempt + 1
            /\ pc' = "attempt_loop"
            /\ UNCHANGED result
    /\ UNCHANGED <<params, staged_locals, optimizer_locals, build_args, target_freqs, run_state, success, card_locals>>

Next ==
    \/ H_Validate
    \/ H_AttemptStart
    \/ H_RaiseRuntimeError
    \/ H_CardStart
    \/ H_FastPath
    \/ H_CardTry
    \/ H_CardFailed
    \/ H_CardsDone
    \/ H_AttemptEnd
    \/ U_Build
    \/ U_Validate
    \/ U_AttemptStart
    \/ U_RaiseRuntimeError
    \/ U_Fallback
    \/ U_Propagate
    \/ U_CardLoop
    \/ U_CardAttempt
    \/ U_CardGiveUp
    \/ U_CardsDone
    \/ U_AttemptEnd

Spec == Init /\ [][Next]_vars

(***************************************************************************)
(* The Frequency Planner on its own: build_global_frequencies applied to   *)
(* every argument tuple of the bounds, R < m*n included.                   *)
(***************************************************************************)
PlannerCalls ==
    [builder : {"planner"}, R : 1..MaxR, T : 1..MaxT, m : 1..MaxM, n : 1..MaxN,
     uniformity : Modes \cup {"exact"}]

InitPlanner ==
    /\ pc = "start"
    /\ params \in PlannerCalls
    /\ build_args = NoArgs
    /\ target_freqs = <<>>
    /\ attempt = 0
    /\ remaining = <<>>
    /\ cards = <<>>
    /\ seen_row_sets = {}
    /\ seen_col_sets = {}
    /\ seen_card_hashes = {}
    /\ success = TRUE
    /\ candidates_master = <<>>
    /\ card_try = 0
    /\ row_sets_pool = <<>>
    /\ tries = 0
    /\ available = {}
    /\ opt_best = <<>>
    /\ opt_best_score = 0
    /\ opt_shuffled = <<>>
    /\ result = <<>>

\* layout.py lines 12-30: one call of build_global_frequencies
P_Plan ==
    /\ pc = "start"
    /\ params.builder = "planner"
    /\ IF params.uniformity \notin Modes
       THEN pc' = "ValueError" /\ UNCHANGED target_freqs
       ELSE /\ target_freqs' = build_global_frequencies(params.R, params.T, params.m,
                                                        params.n, params.uniformity)
            /\ pc' = "planned"
    /\ UNCHANGED <<params, staged_locals, optimizer_locals, build_args, attempt, run_state, success, card_locals, result>>

SpecPlanner == InitPlanner /\ [][P_Plan]_vars

(***************************************************************************)
(* The pure functions on their own: every specification below draws the    *)
(* arguments of one function in its initial state and applies the function *)
(* in one step; the builder's variables stay idle.                         *)
(***************************************************************************)
Idle ==
    /\ build_args = NoArgs
    /\ target_freqs = <<>>
    /\ attempt = 0
    /\ remaining = <<>>
    /\ seen_row_sets = {}
    /\ seen_col_sets = {}
    /\ seen_card_hashes = {}
    /\ success = TRUE
    /\ candidates_master = <<>>
    /\ card_try = 0
    /\ row_sets_pool = <<>>
    /\ tries = 0
    /\ available = {}
    /\ opt_best = <<>>
    /\ opt_best_score = 0
    /\ opt_shuffled = <<>>

idle_vars == <<build_args, target_freqs, attempt, remaining, seen_row_sets,
               seen_col_sets, seen_card_hashes, success, candidates_master, card_try,
               row_sets_pool, tries, available, opt_best, opt_best_score, opt_shuffled>>

\* the lists of at most k entries over the set S
RECURSIVE ListsUpTo(_, _)
ListsUpTo(S, k) ==
    IF k = 0 THEN {<<>>}
    ELSE ListsUpTo(S, k - 1)
         \cup {Append(l, x) : l \in {l2 \in ListsUpTo(S, k - 1) : Len(l2) = k - 1}, x \in S}

(***************************************************************************)
(* feasibility.py: check_uniqueness_capacity                               *)
(***************************************************************************)
\* math.comb(nn, k): 0 when k > nn
RECURSIVE comb(_, _)
comb(nn, k) ==
    IF k = 0 THEN 1
    ELSE IF k > nn THEN 0
    ELSE comb(nn - 1, k - 1) + comb(nn - 1, k)

\* a capacity check that rejects the exact fit
check_uniqueness_capacity_tight(R, T, m, n, unique_scope) ==
    LET scope == Range(unique_scope)
        ok_row == IF "row_sets" \in scope THEN T * m < comb(R, n) ELSE TRUE
        ok_col == IF "col_sets" \in scope THEN T * n < comb(R, m) ELSE TRUE
    IN [feasible |-> ok_row /\ ok_col,
        reasons  |-> (IF ~ok_row THEN <<"row_sets capacity exceeded: T*m > C(R,n)">> ELSE <<>>)
                     \o (IF ~ok_col THEN <<"col_sets capacity exceeded: T*n > C(R,m)">> ELSE <<>>)]

check_uniqueness_capacity(R, T, m, n, unique_scope) ==
    LET scope == Range(unique_scope)
        ok_row == IF "row_sets" \in scope THEN T * m <= comb(R, n) ELSE TRUE
        ok_col == IF "col_sets" \in scope THEN T * n <= comb(R, m) ELSE TRUE
    IN [feasible |-> ok_row /\ ok_col,
        reasons  |-> (IF ~ok_row THEN <<"row_sets capacity exceeded: T*m > C(R,n)">> ELSE <<>>)
                     \o (IF ~ok_col THEN <<"col_sets capacity exceeded: T*n > C(R,m)">> ELSE <<>>)]

ScopeNames == {"row_sets", "col_sets", "cards"}

FeasibilityCalls ==
    [builder : {"feasibility"}, R : 1..MaxR, T : 1..MaxT, m : 1..MaxM, n : 1..MaxN,
     unique_scope : ListsUpTo(ScopeNames, MaxScopeLen)]

InitFeasibility ==
    /\ pc = "start"
    /\ params \in FeasibilityCalls
    /\ Idle
    /\ cards = <<>>
    /\ result = <<>>

\* feasibility.py lines 27-43: one call of check_uniqueness_capacity
F_Check ==
    /\ pc = "start"
    /\ params.builder = "feasibility"
    /\ result' = check_uniqueness_capacity(params.R, params.T, params.m, params.n,
                                           params.unique_scope)
    /\ pc' = "checked"
    /\ UNCHANGED <<params, idle_vars, cards>>

SpecFeasibility == InitFeasibility /\ [][F_Check]_vars

(***************************************************************************)
(* verify.py: the Verifier                                                 *)
(***************************************************************************)
\* how often x occurs in the sequence s
Occurrences(s, x) == Cardinality({i \in DOMAIN s : s[i] = x})

\* a frequency map that counts a number once per card
compute_frequencies_per_card(cs, R) ==
    LET cells == Flatten([t \in DOMAIN cs |-> Flatten(cs[t])])
    IN [x \in Range(cells) \cup 1..R |->
           Cardinality({t \in DOMAIN cs : x \in Range(Flatten(cs[t]))})]

\* lines 19-27: a Counter of the cells, then setdefault(x, 0) for x in 1..R
compute_frequencies(cs, R) ==
    LET cells == Flatten([t \in DOMAIN cs |-> Flatten(cs[t])])
    IN [x \in Range(cells) \cup 1..R |-> Occurrences(cells, x)]

\* a collision count that takes the multiplicity itself
CollisionSumFull(seen) ==
    SumFn([k \in Range(seen) |->
              IF Occurrences(seen, k) > 1 THEN Occurrences(seen, k) ELSE 0],
          Range(seen))

\* lines 63-64: sum(c - 1 for c in counter.values() if c > 1), the counter
\* holding the multiplicities of the entries of seen
CollisionSum(seen) ==
    SumFn([k \in Range(seen) |->
              IF Occurrences(seen, k) > 1 THEN Occurrences(seen, k) - 1 ELSE 0],
          Range(seen))

\* lines 49-70: the tuples are counted only for the set kinds in scope
count_set_collisions(cs, scope) ==
    LET check_rows == "row_sets" \in Range(scope)
        check_cols == "col_sets" \in Range(scope)
        rows_seen == IF check_rows
                     THEN Flatten([t \in DOMAIN cs |-> row_sets_of_card(cs[t])])
                     ELSE <<>>
        cols_seen == IF check_cols
                     THEN Flatten([t \in DOMAIN cs |-> col_sets_of_card(cs[t])])
                     ELSE <<>>
    IN [row_sets_checked |-> check_rows,
        col_sets_checked |-> check_cols,
        row_set_collisions |-> CollisionSum(rows_seen),
        col_set_collisions |-> CollisionSum(cols_seen)]

\* lines 73-81
check_no_duplicates_within_cards(cs) ==
    \A t \in DOMAIN cs :
        Cardinality(Range(Flatten(cs[t]))) = Len(Flatten(cs[t]))

\* lines 84-91
check_no_identical_cards(cs) ==
    \A t \in DOMAIN cs : \A u \in DOMAIN cs :
        t < u => matrix_hash(cs[t]) # matrix_hash(cs[u])

\* max(values) - min(values) of a map with a non-empty domain
MaxMinusMin(f) ==
    LET hi == CHOOSE v \in Range(f) : \A w \in Range(f) : w <= v
        lo == CHOOSE v \in Range(f) : \A w \in Range(f) : v <= w
    IN hi - lo

\* lines 133-161: the report, without the position tables and the chi-square
\* test
verify(cs, R, unique_scope) ==
    LET freqs == compute_frequencies(cs, R)
        uniq == count_set_collisions(cs, unique_scope)
    IN [frequencies |-> freqs,
        uniqueness |-> uniq,
        max_minus_min |-> MaxMinusMin(freqs),
        ok_no_duplicates_within_cards |-> check_no_duplicates_within_cards(cs),
        ok_no_identical_cards |-> check_no_identical_cards(cs)]

\* the m x n matrices over 1..v
MatricesOver(m, n, v) == [1..m -> [1..n -> 1..v]]

\* the card lists handed to the Verifier: up to VerifyMaxCards cards of one
\* shape
VerifyCardLists ==
    UNION {[1..k -> MatricesOver(m, n, VerifyMaxValue)] :
              k \in 0..VerifyMaxCards, m \in 1..VerifyMaxSide, n \in 1..VerifyMaxSide}

VerifyCalls ==
    [builder : {"verify"}, R : 1..(VerifyMaxValue + 1),
     unique_scope : ListsUpTo(ScopeNames, MaxScopeLen)]

InitVerify ==
    /\ pc = "start"
    /\ params \in VerifyCalls
    /\ Idle
    /\ cards \in VerifyCardLists
    /\ result = <<>>

\* one call of verify(cards, R=R, m=m, n=n, unique_scope=unique_scope)
V_Verify ==
    /\ pc = "start"
    /\ params.builder = "verify"
    /\ result' = verify(cards, params.R, params.unique_scope)
    /\ pc' = "verified"
    /\ UNCHANGED <<params, idle_vars, cards>>

SpecVerify == InitVerify /\ [][V_Verify]_vars

(***************************************************************************)
(* uniqueness.py: row_sets_of_card and col_sets_of_card on one matrix and  *)
(* on the same matrix with the values shuffled inside its rows or inside   *)
(* its columns.                                                            *)
(***************************************************************************)
\* the matrix with row i rearranged by perms[i]
ShuffledInRows(mx, perms) ==
    [i \in DOMAIN mx |-> [j \in DOMAIN mx[i] |-> mx[i][perms[i][j]]]]

\* the matrix with column j rearranged by perms[j]
ShuffledInCols(mx, perms) ==
    [i \in DOMAIN mx |-> [j \in DOMAIN mx[i] |-> mx[perms[j][i]][j]]]

SetsCalls ==
    {[builder |-> "uniqueness", matrix |-> <<>>, kind |-> "rows", perms |-> <<>>]}
    \cup UNION {[builder : {"uniqueness"}, matrix : MatricesOver(m, n, SetsMaxValue),
                 kind : {"rows"}, perms : [1..m -> Orderings(1..n)]]
                \cup [builder : {"uniqueness"}, matrix : MatricesOver(m, n, SetsMaxValue),
                      kind : {"cols"}, perms : [1..n -> Orderings(1..m)]]
                : m \in 1..SetsMaxRows, n \in 1..SetsMaxCols}

InitSets ==
    /\ pc = "start"
    /\ params \in SetsCalls
    /\ Idle
    /\ cards = <<>>
    /\ result = <<>>

\* uniqueness.py lines 8-21: both functions on the matrix and on the shuffled
\* matrix
S_Sets ==
    /\ pc = "start"
    /\ params.builder = "uniqueness"
    /\ LET shuffled == IF params.kind = "rows"
                       THEN ShuffledInRows(params.matrix, params.perms)
                       ELSE ShuffledInCols(params.matrix, params.perms)
       IN result' = [row_sets |-> row_sets_of_card(params.matrix),
                     col_sets |-> col_sets_of_card(params.matrix),
                     shuffled_row_sets |-> row_sets_of_card(shuffled),
                     shuffled_col_sets |-> col_sets_of_card(shuffled)]
    /\ pc' = "done"
    /\ UNCHANGED <<params, idle_vars, cards>>

SpecSets == InitSets /\ [][S_Sets]_vars

(***************************************************************************)
(* builder/bibd.py: the deterministic cyclic construction                  *)
(***************************************************************************)
\* lines 6-9
RECURSIVE gcd(_, _)
gcd(a, b) == IF b = 0 THEN a ELSE gcd(b, a % b)

\* lines 14-18: the search loop, k the candidate and left the passes left
RECURSIVE CoprimeSearch(_, _, _)
CoprimeSearch(R, k, left) ==
    IF left = 0 THEN 1
    ELSE IF gcd(R, k) = 1 THEN k
    ELSE CoprimeSearch(R, IF (k + 1) % R = 0 THEN 1 ELSE (k + 1) % R, left - 1)

\* a step search that takes its first candidate
find_coprime_step_first(R, start) == Max2(1, start % R)

\* lines 12-18
find_coprime_step(R, start) == CoprimeSearch(R, Max2(1, start % R), R)

\* a construction that gives every card the offset of the second one
BibdCards_unstepped(R, T, m, n, k) ==
    [t \in 1..T |-> [i \in 1..m |-> [j \in 1..n |->
        (((i - 1) * n + (j - 1) + k) % R) + 1]]]

\* lines 44-54: the cards, rows and columns numbered from 1 here
BibdCards(R, T, m, n, k) ==
    [t \in 1..T |-> [i \in 1..m |-> [j \in 1..n |->
        (((i - 1) * n + (j - 1) + (t - 1) * k) % R) + 1]]]

\* lines 21-55: None, or the card list
build_cards_bibd(R, T, m, n, uniformity) ==
    LET P == T * m * n
    IN IF uniformity = "strict" /\ P % R # 0 THEN None
       ELSE IF R < m * n THEN None
       ELSE LET k == find_coprime_step(R, m * n + 1)
                cs == BibdCards(R, T, m, n, k)
            IN IF \E t \in 1..T : \E i \in 1..m :
                     Cardinality(Range(cs[t][i])) # Len(cs[t][i])
               THEN None
               ELSE cs

BibdCalls ==
    [builder : {"bibd"}, R : 1..BibdMaxR, T : 1..BibdMaxT, m : 1..BibdMaxM,
     n : 1..BibdMaxN, uniformity : Modes \cup {"exact"}]

InitBibd ==
    /\ pc = "start"
    /\ params \in BibdCalls
    /\ Idle
    /\ cards = <<>>
    /\ result = <<>>

\* one call of build_cards_bibd
B_Build ==
    /\ pc = "start"
    /\ params.builder = "bibd"
    /\ result' = build_cards_bibd(params.R, params.T, params.m, params.n,
                                  params.uniformity)
    /\ pc' = "built"
    /\ UNCHANGED <<params, idle_vars, cards>>

SpecBibd == InitBibd /\ [][B_Build]_vars

(***************************************************************************)
(* builder/staged.py: a pool of row sets, packed into cards                *)
(***************************************************************************)
\* lines 10-12
has_consecutive(values) == \E x \in Range(values) : (x + 1) \in Range(values)

\* line 35: tuple(sorted(rng.sample(numbers, n))), any n numbers of 1..R
SortedSamples(R, n) == {SortedOfSet(S) : S \in {S2 \in SUBSET (1..R) : Cardinality(S2) = n}}

\* lines 46-47
h_pen(arr) == Cardinality({i \in 1..(Len(arr) - 1) : Abs(arr[i] - arr[i + 1]) = 1})

\* lines 52-60: the shuffles left to draw, the set of orderings the loop can
\* end with
RECURSIVE OrderRowLoop(_, _, _, _)
OrderRowLoop(row_set, best, best_score, left) ==
    IF left = 0 THEN {best}
    ELSE UNION {IF h_pen(cand) < best_score
                THEN IF h_pen(cand) = 0 THEN {cand}
                     ELSE OrderRowLoop(row_set, cand, h_pen(cand), left - 1)
                ELSE OrderRowLoop(row_set, best, best_score, left - 1)
                : cand \in Orderings(Range(row_set))}

\* lines 45-61: order_row_min_consecutive of staged.py (heuristic.py has a
\* function of the same name)
staged_order_row_min_consecutive(row_set) ==
    UNION {OrderRowLoop(row_set, best, BigScore, StagedShuffles)
           : best \in Orderings(Range(row_set))}

\* a column check that looks at no pair
vertical_ok_always(col_vals) == TRUE

\* lines 103-108
vertical_ok(col_vals) ==
    \A i \in 1..(Len(col_vals) - 1) : Abs(col_vals[i] - col_vals[i + 1]) # 1

RemoveAt(s, i) == SubSeq(s, 1, i - 1) \o SubSeq(s, i + 1, Len(s))

\* itertools.permutations(base), in the order it yields them
RECURSIVE permutations(_)
permutations(base) ==
    IF base = <<>> THEN << <<>> >>
    ELSE LET RECURSIVE From(_)
             From(i) ==
                 IF i > Len(base) THEN <<>>
                 ELSE LET rest == permutations(RemoveAt(base, i))
                      IN [q \in 1..Len(rest) |-> <<base[i]>> \o rest[q]] \o From(i + 1)
         IN From(1)

\* lines 91-96: the first m pairwise disjoint row sets of the shuffled list
RECURSIVE ChooseDisjoint(_, _, _, _)
ChooseDisjoint(shuffled, chosen, used_nums, m) ==
    IF shuffled = <<>> \/ Len(chosen) = m THEN chosen
    ELSE IF used_nums \cap Range(Head(shuffled)) = {}
    THEN ChooseDisjoint(Tail(shuffled), Append(chosen, Head(shuffled)),
                        used_nums \cup Range(Head(shuffled)), m)
    ELSE ChooseDisjoint(Tail(shuffled), chosen, used_nums, m)

\* lines 115-129: the first permutation of base that passes the column check
\* and, for the last row of a card, the column-set registry; None if there is
\* none
PlaceRow(matrix, base, m, n, unique_scope, seen) ==
    LET perms == permutations(base)
        fits(perm) ==
            /\ \A j \in 1..n :
                  vertical_ok([r \in 1..Len(matrix) |-> matrix[r][j]] \o <<perm[j]>>)
            /\ ~(/\ "col_sets" \in unique_scope
                 /\ Len(matrix) + 1 = m
                 /\ \E cs \in Range(col_sets_of_card(Append(matrix, perm))) : cs \in seen)
        ok == {q \in 1..Len(perms) : fits(perms[q])}
    IN IF ok = {} THEN None
       ELSE perms[CHOOSE q \in ok : \A q2 \in ok : q <= q2]

\* lines 112-133: rows idx..m placed under matrix (rows numbered from 1 here);
\* None if one of them cannot be placed
RECURSIVE PlaceRows(_, _, _, _, _, _, _)
PlaceRows(matrix, chosen, idx, m, n, unique_scope, seen) ==
    IF idx > m THEN matrix
    ELSE LET placed == PlaceRow(matrix, chosen[idx], m, n, unique_scope, seen)
         IN IF placed = None THEN None
            ELSE PlaceRows(Append(matrix, placed), chosen, idx + 1, m, n,
                           unique_scope, seen)

StagedCalls ==
    [builder : {"staged"}, R : 1..StagedMaxR, T : 1..StagedMaxT, m : 1..StagedMaxM,
     n : 1..StagedMaxN, unique_scope : Scopes, rng_engine : {"py_random", "mt19937"}]

InitStaged ==
    /\ pc = "start"
    /\ params \in StagedCalls
    /\ Idle
    /\ cards = <<>>
    /\ result = <<>>

staged_frame == <<params, build_args, target_freqs, attempt, remaining, seen_row_sets,
                  success, candidates_master, optimizer_locals>>

\* lines 169-171 and 28-32: build_cards_staged enters generate_row_sets_pool
G_CreateRng ==
    /\ pc = "start"
    /\ params.builder = "staged"
    /\ pc' = IF params.rng_engine \notin SupportedEngines THEN "ValueError" ELSE "pool"
    /\ UNCHANGED <<staged_frame, staged_locals, cards, seen_col_sets, seen_card_hashes,
                   card_try, result>>

\* lines 33-41: one pass of the sampling loop; seen holds the entries of the
\* pool and nothing else. rng.sample raises ValueError for n > R.
G_Sample ==
    /\ pc = "pool"
    /\ params.builder = "staged"
    /\ Len(row_sets_pool) < params.T * params.m
    /\ tries < PoolTries
    /\ IF params.n > params.R
       THEN pc' = "ValueError" /\ UNCHANGED <<row_sets_pool, tries>>
       ELSE /\ tries' = tries + 1
            /\ \E cand \in SortedSamples(params.R, params.n) :
                  row_sets_pool' = IF has_consecutive(cand) \/ cand \in Range(row_sets_pool)
                                   THEN row_sets_pool
                                   ELSE Append(row_sets_pool, cand)
            /\ UNCHANGED pc
    /\ UNCHANGED <<staged_frame, available, cards, seen_col_sets, seen_card_hashes,
                   card_try, result>>

\* lines 42, 172-173 and 76-80: the pool is returned; a short pool ends the
\* call with None, a full one enters pack_cards_from_pool
G_PoolDone ==
    /\ pc = "pool"
    /\ params.builder = "staged"
    /\ ~(Len(row_sets_pool) < params.T * params.m /\ tries < PoolTries)
    /\ IF Len(row_sets_pool) < params.T * params.m
       THEN /\ result' = None
            /\ pc' = "returned"
            /\ UNCHANGED <<available, cards, seen_col_sets, seen_card_hashes, card_try>>
       ELSE /\ available' = Range(row_sets_pool)
            /\ seen_col_sets' = {}
            /\ seen_card_hashes' = {}
            /\ cards' = <<>>
            /\ card_try' = 0
            /\ pc' = "pack"
            /\ UNCHANGED result
    /\ UNCHANGED <<staged_frame, row_sets_pool, tries>>

\* lines 84-152: one pass of the restart loop of a card
K_CardAttempt ==
    /\ pc = "pack"
    /\ params.builder = "staged"
    /\ Len(cards) < params.T
    /\ card_try < MaxCardRestarts
    /\ \E shuffled \in Orderings(available) :
          LET chosen == ChooseDisjoint(shuffled, <<>>, {}, params.m)
          IN IF Len(chosen) < params.m
             THEN /\ card_try' = card_try + 1
                  /\ UNCHANGED <<available, cards, seen_col_sets, seen_card_hashes>>
             ELSE \E row1 \in staged_order_row_min_consecutive(chosen[1]) :
                    LET matrix == PlaceRows(<<row1>>, chosen, 2, params.m, params.n,
                                            params.unique_scope, seen_col_sets)
                    IN IF matrix = None \/ matrix_hash(matrix) \in seen_card_hashes
                       THEN /\ card_try' = card_try + 1
                            /\ UNCHANGED <<available, cards, seen_col_sets,
                                           seen_card_hashes>>
                       ELSE /\ available' = available \ Range(chosen)
                            /\ seen_col_sets' =
                                  IF "col_sets" \in params.unique_scope
                                  THEN seen_col_sets \cup Range(col_sets_of_card(matrix))
                                  ELSE seen_col_sets
                            /\ seen_card_hashes' = seen_card_hashes \cup {matrix_hash(matrix)}
                            /\ cards' = Append(cards, matrix)
                            /\ card_try' = 0
    /\ UNCHANGED <<pc, staged_frame, row_sets_pool, tries, result>>

\* lines 154-155: no pass of the restart loop gave the card
K_CardGiveUp ==
    /\ pc = "pack"
    /\ params.builder = "staged"
    /\ Len(cards) < params.T
    /\ card_try = MaxCardRestarts
    /\ result' = None
    /\ pc' = "returned"
    /\ UNCHANGED <<staged_frame, staged_locals, cards, seen_col_sets, seen_card_hashes,
                   card_try>>

\* lines 157 and 186
K_Return ==
    /\ pc = "pack"
    /\ params.builder = "staged"
    /\ Len(cards) = params.T
    /\ result' = cards
    /\ pc' = "returned"
    /\ UNCHANGED <<staged_frame, staged_locals, cards, seen_col_sets, seen_card_hashes,
                   card_try>>

NextStaged ==
    \/ G_CreateRng
    \/ G_Sample
    \/ G_PoolDone
    \/ K_CardAttempt
    \/ K_CardGiveUp
    \/ K_Return

SpecStaged == InitStaged /\ [][NextStaged]_vars

(***************************************************************************)
(* config.py: compute_params_hash                                          *)
(***************************************************************************)
\* lines 155-171: the items of include, in the order of their names as strings
\* (upper case before lower case), which is the order sort_keys=True gives
KeyOrder ==
    <<"R", "T", "allow_best_effort", "build_timeout_sec", "m", "n", "parallel",
      "parallelism", "position_balance", "seed.engine", "seed.value",
      "swap_iterations", "uniformity", "unique_scope">>

include == Range(KeyOrder)

Reverse(s) == [i \in 1..Len(s) |-> s[Len(s) + 1 - i]]

\* include is a set of strings: the loop of line 182 meets its items in an
\* order that is not fixed
IncludeOrders == {KeyOrder, Reverse(KeyOrder)}

\* the scope names in the order of their names as strings
ScopeOrder == <<"cards", "col_sets", "row_sets">>

\* path.split(".") for the items of include
SplitPath(item) ==
    IF item = "seed.engine" THEN <<"seed", "engine">>
    ELSE IF item = "seed.value" THEN <<"seed", "value">>
    ELSE <<item>>

\* lines 173-179: the value under a path, as the one-entry tuple <<value>>,
\* and None if a part is missing (a value that a path goes through is a
\* mapping in every map that is modelled)
RECURSIVE extract(_, _)
extract(path, source) ==
    IF path = <<>> THEN <<source>>
    ELSE IF Head(path) \notin DOMAIN source THEN None
    ELSE extract(Tail(path), source[Head(path)])

\* lines 182-189: the contract as the list of its (item, value) entries in
\* the order they are put in
RECURSIVE ContractEntries(_, _)
ContractEntries(items, resolved) ==
    IF items = <<>> THEN <<>>
    ELSE LET item == Head(items)
             rest == ContractEntries(Tail(items), resolved)
         IN IF Len(SplitPath(item)) > 1
            THEN IF extract(SplitPath(item), resolved) # None
                 THEN <<<<item, extract(SplitPath(item), resolved)[1]>>>> \o rest
                 ELSE rest
            ELSE IF item \in DOMAIN resolved
                 THEN <<<<item, resolved[item]>>>> \o rest
                 ELSE rest

\* a normalisation that keeps the list as it is
normalize_unique_scope_kept(scope) == scope

\* line 193: sorted(set(str(x) for x in scope))
normalize_unique_scope(scope) ==
    LET Listed(s) == s \in Range(scope) IN SelectSeq(ScopeOrder, Listed)

\* line 152: json.dumps(data, sort_keys=True, ...): the entries in the order of
\* their keys
canonical_json_dumps(data) ==
    LET Present(k) == \E i \in DOMAIN data : data[i][1] = k
        keys == SelectSeq(KeyOrder, Present)
    IN [q \in 1..Len(keys) |->
           data[CHOOSE i \in DOMAIN data : data[i][1] = keys[q]]]

\* lines 154-197, for one order of the loop over include; sha256 is taken to
\* be collision free, so the digest stands for the text that is digested
compute_params_hash(resolved, order) ==
    LET entries == ContractEntries(order, resolved)
        contract == [i \in DOMAIN entries |->
                        IF entries[i][1] = "unique_scope"
                        THEN <<"unique_scope", normalize_unique_scope(entries[i][2])>>
                        ELSE entries[i]]
    IN canonical_json_dumps(contract)

\* the seed section of a resolved map, with and without a key of its own that
\* is not in include
SeedSections ==
    {[engine |-> "py_random", value |-> 20250824],
     [engine |-> "py_random", value |-> 20250824, note |-> "draft"]}

\* resolved maps: the keys every one of them has, and the keys some have
ResolvedValues ==
    [R : {75}, T : {150}, m : {3}, n : {4}, uniformity : {"strict"},
     position_balance : {TRUE}, build_timeout_sec : {90}, swap_iterations : {20000},
     parallel : {FALSE}, parallelism : {1},
     unique_scope : ListsUpTo({"row_sets", "col_sets"}, MaxScopeLen),
     allow_best_effort : BOOLEAN, seed : SeedSections, log_level : {"INFO", "DEBUG"}]

OptionalKeys == {"allow_best_effort", "seed"}

ResolvedMaps ==
    {[k \in (DOMAIN v) \ absent |-> v[k]] : v \in ResolvedValues, absent \in SUBSET OptionalKeys}

HashCalls == [builder : {"params_hash"}, first : ResolvedMaps, second : ResolvedMaps]

InitHash ==
    /\ pc = "start"
    /\ params \in HashCalls
    /\ Idle
    /\ cards = <<>>
    /\ result = <<>>

\* compute_params_hash called on the two maps
P_Hash ==
    /\ pc = "start"
    /\ params.builder = "params_hash"
    /\ \E o1 \in IncludeOrders : \E o2 \in IncludeOrders :
          result' = [first |-> compute_params_hash(params.first, o1),
                     second |-> compute_params_hash(params.second, o2)]
    /\ pc' = "hashed"
    /\ UNCHANGED <<params, idle_vars, cards>>

SpecHash == InitHash /\ [][P_Hash]_vars

(***************************************************************************)
(* core/optimizer.py: RowOptimizer.optimize as a loop, one step for each   *)
(* pass of "for _ in range(self.max_attempts)" (rows of up to OptMaxLen    *)
(* values of 1..OptMaxValue, repeated values included; anchors are None or *)
(* a row of the same length).                                              *)
(***************************************************************************)
OptMaxLen == 3
OptMaxValue == 4

OptimizerRows == UNION {[1..k -> 1..OptMaxValue] : k \in 0..OptMaxLen}

OptimizerCalls ==
    {[builder |-> "optimizer", row |-> r, anchors |-> a] :
        <<r, a>> \in {ra \in OptimizerRows \X OptimizerRows :
                         ra[2] = None \/ Len(ra[2]) = Len(ra[1])}}

InitOptimizer ==
    /\ pc = "start"
    /\ params \in OptimizerCalls
    /\ Idle
    /\ cards = <<>>
    /\ result = <<>>

optimizer_frame == <<params, build_args, target_freqs, attempt, run_state, success,
                     card_locals, staged_locals>>

\* optimize, _optimize_horizontal lines 26-27 and _optimize_combined lines
\* 45-46: best = row[:] and its penalty
O_Optimize ==
    /\ pc = "start"
    /\ params.builder = "optimizer"
    /\ opt_best' = params.row
    /\ opt_best_score' = OptimizerScore(params.row, params.anchors)
    /\ opt_shuffled' = <<>>
    /\ pc' = "shuffle_loop"
    /\ UNCHANGED <<optimizer_frame, result>>

\* lines 29-39 and 48-58: one pass of the loop: shuffle a copy of the row,
\* keep it if its penalty is smaller, leave the loop if that penalty is 0
O_Shuffle ==
    /\ pc = "shuffle_loop"
    /\ params.builder = "optimizer"
    /\ Len(opt_shuffled) < OptimizerAttempts
    /\ \E candidate \in SampleOf(params.row, Len(params.row)) :
         LET score == OptimizerScore(candidate, params.anchors)
         IN /\ opt_shuffled' = Append(opt_shuffled, candidate)
            /\ IF score < opt_best_score
               THEN /\ opt_best_score' = score
                    /\ opt_best' = candidate
                    /\ pc' = IF score = 0 THEN "loop_done" ELSE "shuffle_loop"
               ELSE UNCHANGED <<opt_best_score, opt_best, pc>>
    /\ UNCHANGED <<optimizer_frame, result>>

\* the loop ran max_attempts times
O_LoopEnd ==
    /\ pc = "shuffle_loop"
    /\ params.builder = "optimizer"
    /\ Len(opt_shuffled) >= OptimizerAttempts
    /\ pc' = "loop_done"
    /\ UNCHANGED <<optimizer_frame, optimizer_locals, result>>

\* lines 41 and 60: return best
O_Return ==
    /\ pc = "loop_done"
    /\ params.builder = "optimizer"
    /\ result' = opt_best
    /\ pc' = "optimized"
    /\ UNCHANGED <<optimizer_frame, optimizer_locals>>

NextOptimizer == O_Optimize \/ O_Shuffle \/ O_LoopEnd \/ O_Return

SpecOptimizer == InitOptimizer /\ [][NextOptimizer]_vars

(***************************************************************************)
(* builder/heuristic.py: build_cards run to completion. The function is    *)
(* sequential code: whenever a step of it is possible the interpreter      *)
(* takes one, which is weak fairness of its next-step relation.            *)
(***************************************************************************)
LiveMaxR == 3
LiveShortT == 2
LiveSmallR == 2
LiveMaxT == 5

\* runs of up to LiveShortT cards over pools of up to LiveMaxR numbers, and
\* runs of up to LiveMaxT cards over pools of up to LiveSmallR numbers
LiveCalls ==
    {p \in [builder : {"heuristic"}, R : 1..LiveMaxR, T : 1..LiveMaxT,
            m : 1..MaxM, n : 1..MaxN,
            uniformity : Modes \cup {"exact"}, unique_scope : Scopes,
            rng_engine : {"py_random", "mt19937"}, max_attempts : 0..MaxAttempts] :
        p.T <= LiveShortT \/ p.R <= LiveSmallR}

InitHeuristic ==
    /\ pc = "start"
    /\ params \in LiveCalls
    /\ Idle
    /\ cards = <<>>
    /\ result = <<>>

NextHeuristic ==
    \/ H_Validate
    \/ H_AttemptStart
    \/ H_RaiseRuntimeError
    \/ H_CardStart
    \/ H_FastPath
    \/ H_CardTry
    \/ H_CardFailed
    \/ H_CardsDone
    \/ H_AttemptEnd

SpecHeuristicLive == InitHeuristic /\ [][NextHeuristic]_vars /\ WF_vars(NextHeuristic)

(***************************************************************************)
(* Properties of the card lists.                                           *)
(***************************************************************************)
Cells(card) == Flatten(card)

\* number of cells holding x over all cards of a list
RECURSIVE CountIn(_, _)
CountIn(cs, x) ==
    IF cs = <<>> THEN 0
    ELSE Cardinality({k \in DOMAIN Cells(Head(cs)) : Cells(Head(cs))[k] = x})
         + CountIn(Tail(cs), x)

\* the (card, row) and (card, column) positions of a card list
RowEntries(cs) == UNION {{<<t, i>> : i \in DOMAIN cs[t]} : t \in DOMAIN cs}

ColEntries(cs) == UNION {{<<t, j>> : j \in DOMAIN col_sets_of_card(cs[t])} : t \in DOMAIN cs}

NoRowSetTwice(cs) ==
    \A p, q \in RowEntries(cs) :
        p # q => row_sets_of_card(cs[p[1]])[p[2]] # row_sets_of_card(cs[q[1]])[q[2]]

NoColSetTwice(cs) ==
    \A p, q \in ColEntries(cs) :
        p # q => col_sets_of_card(cs[p[1]])[p[2]] # col_sets_of_card(cs[q[1]])[q[2]]

HeuristicReturned == params.builder = "heuristic" /\ pc = "returned"

\* C1: a list returned by heuristic.build_cards has exactly T cards, each of m
\* rows of n cells, every cell in 1..R, and the m*n cells of a card pairwise
\* distinct
C1_ReturnedCardsWellFormed ==
    HeuristicReturned =>
        /\ Len(result) = params.T
        /\ \A t \in DOMAIN result :
             /\ Len(result[t]) = params.m
             /\ \A i \in DOMAIN result[t] : Len(result[t][i]) = params.n
             /\ Range(Cells(result[t])) \subseteq 1..params.R
             /\ Cardinality(Range(Cells(result[t]))) = params.m * params.n

C1_Witness ==
    /\ HeuristicReturned
    /\ params.unique_scope = {"row_sets", "col_sets"}
    /\ params.T = 2 /\ params.m = 2 /\ params.n = 2

\* C2: in a returned list every number x of 1..R occurs exactly
\* build_global_frequencies(...)[x] times and the budget map is all zeros; the
\* cells number T*m*n and, in near mode, the largest and smallest count differ
\* by at most 1
C2_ReturnedCountsMatchTargets ==
    HeuristicReturned =>
        LET count == [x \in 1..params.R |-> CountIn(result, x)]
        IN /\ count = build_global_frequencies(params.R, params.T, params.m, params.n,
                                               params.uniformity)
           /\ \A x \in 1..params.R : remaining[x] = 0
           /\ SumFn(count, 1..params.R) = params.T * params.m * params.n
           /\ params.uniformity = "near" =>
                \A x, y \in 1..params.R : count[x] - count[y] <= 1

C2_Witness ==
    /\ HeuristicReturned
    /\ params.uniformity = "near"
    /\ (params.T * params.m * params.n) % params.R # 0
    /\ params.unique_scope # {}

\* C3: no two cards of a returned list are identical cell by cell, whatever
\* unique_scope is
C3_NoIdenticalCards ==
    HeuristicReturned =>
        \A i, j \in DOMAIN result : i # j => result[i] # result[j]

\* C4: with row_sets in unique_scope no sorted row tuple occurs twice over all
\* rows of the cards accepted in an attempt, nor of the returned list
C4_RowSetsUnique ==
    (params.builder = "heuristic" /\ "row_sets" \in params.unique_scope) =>
        NoRowSetTwice(cards) /\ NoRowSetTwice(result)

C4_Witness ==
    /\ HeuristicReturned
    /\ "row_sets" \in params.unique_scope
    /\ params.T = 2
    /\ params.R < 2 * params.m * params.n

\* C5: with col_sets in unique_scope no sorted column tuple occurs twice over
\* all columns of the cards accepted in an attempt, nor of the returned list,
\* for m = 1 as for m >= 2
C5_ColSetsUnique ==
    (params.builder = "heuristic" /\ "col_sets" \in params.unique_scope) =>
        NoColSetTwice(cards) /\ NoColSetTwice(result)

C5_Witness ==
    /\ HeuristicReturned
    /\ "col_sets" \in params.unique_scope
    /\ params.T = 2 /\ params.m = 2 /\ params.n = 2

\* the run state an attempt starts from
FreshRunState ==
    /\ remaining = target_freqs
    /\ cards = <<>>
    /\ seen_row_sets = {}
    /\ seen_col_sets = {}
    /\ seen_card_hashes = {}

\* the run state is the one the cards accepted in this attempt produce
RunStateOfCards ==
    /\ Len(cards) <= params.T
    /\ remaining = [x \in 1..params.R |-> target_freqs[x] - CountIn(cards, x)]
    /\ seen_row_sets = IF "row_sets" \in params.unique_scope
                       THEN {row_sets_of_card(cards[e[1]])[e[2]] : e \in RowEntries(cards)}
                       ELSE {}
    /\ seen_col_sets = IF "col_sets" \in params.unique_scope
                       THEN {col_sets_of_card(cards[e[1]])[e[2]] : e \in ColEntries(cards)}
                       ELSE {}
    /\ seen_card_hashes = IF params.unique_scope # {}
                          THEN {matrix_hash(cards[t]) : t \in DOMAIN cards}
                          ELSE {}

InAttempt == pc \in {"card_loop", "card_try", "attempt_end", "returned"}

\* C6: every attempt of heuristic.build_cards starts from a fresh run state
\* (budget = planner output, empty registries, no cards); within an attempt the
\* run state is exactly what the cards accepted in that attempt produce; a card
\* failure ends the attempt without a return; the returned list is the card
\* list of the attempt that succeeded
C6_AttemptsOwnTheirRunState ==
    /\ [][(params.builder = "heuristic" /\ pc = "attempt_loop" /\ pc' = "card_loop")
            => FreshRunState']_vars
    /\ [][(params.builder = "heuristic" /\ success /\ ~success')
            => (pc' = "attempt_end" /\ cards' = cards /\ result' = result)]_vars
    /\ []((params.builder = "heuristic" /\ InAttempt) => RunStateOfCards)
    /\ []((params.builder = "heuristic" /\ pc = "attempt_end" /\ ~success)
            => result = <<>>)
    /\ [](HeuristicReturned => (success /\ result = cards))

C6_Witness ==
    /\ HeuristicReturned
    /\ attempt = 1
    /\ params.unique_scope # {}
    /\ params.T = 2

\* the attempt cap of the call in progress
AttemptCap ==
    IF params.builder = "heuristic" THEN params.max_attempts ELSE build_args.max_attempts

BudgetLeft == SumFn(remaining, DOMAIN remaining)

Returned == pc = "returned"

RuntimeErrorRaised == pc \in {"RuntimeError", "build_cards_raised"}

\* C7: heuristic.build_cards and UniversalCardBuilder._build_cards return only
\* the card list of an attempt that built all T cards and used the budget up
\* exactly; RuntimeError is raised only once every attempt 0..max_attempts-1
\* has failed, and then nothing is returned; a failed attempt leads to the next
\* attempt, a successful one ends the run, and no step follows the return
C7_AllCardsOrRuntimeError ==
    /\ [](Returned => /\ Len(result) = params.T
                      /\ result = cards
                      /\ success
                      /\ \A x \in DOMAIN remaining : remaining[x] = 0
                      /\ attempt < AttemptCap)
    /\ [](result # <<>> => Returned)
    /\ [](RuntimeErrorRaised => (attempt = AttemptCap /\ result = <<>>))
    /\ [][(pc = "attempt_loop" /\ attempt >= AttemptCap) => RuntimeErrorRaised']_vars
    /\ [][pc = "attempt_end" =>
            IF success /\ Len(cards) = params.T /\ BudgetLeft = 0
            THEN pc' = "returned" /\ result' = cards /\ attempt' = attempt
            ELSE pc' = "attempt_loop" /\ result' = <<>> /\ attempt' = attempt + 1]_vars
    /\ [][pc' = "returned" => pc = "attempt_end"]_vars
    /\ [][~Returned]_vars

\* every attempt failed, the last one after it had accepted a card
C7_Witness ==
    /\ pc = "RuntimeError"
    /\ attempt = AttemptCap
    /\ attempt >= 2
    /\ cards # <<>>
    /\ Len(cards) < params.T
    /\ result = <<>>

BadArguments ==
    params.R < params.m * params.n \/ params.uniformity \notin Modes

BadEngine == params.rng_engine \notin SupportedEngines

\* the positions of a call before its first attempt
BeforeFirstAttempt ==
    /\ attempt = 0
    /\ remaining = <<>>
    /\ cards = <<>>
    /\ result = <<>>

\* the adaptive strategy has not gone on to the optimal strategy
NoFallback ==
    (params.builder = "universal" /\ params.strategy = "auto")
        => build_args.phase # "optimal"

\* C8: with R < m*n, a uniformity mode other than 'strict' and 'near', or an
\* unsupported RNG engine name, heuristic.build_cards and
\* UniversalCardBuilder._build_cards end in ValueError: the call is before its
\* first attempt or has raised ValueError, no attempt has run, no card is
\* returned and the adaptive strategy has not fallen back
C8_ConfigurationErrorsRaiseValueError ==
    /\ BadArguments =>
          /\ pc \in {"start", "build_cards", "ValueError"}
          /\ target_freqs = <<>>
    /\ (BadArguments \/ BadEngine) =>
          /\ pc \in {"start", "build_cards", "attempt_loop", "ValueError"}
          /\ BeforeFirstAttempt
          /\ NoFallback

\* C8 for the calls that allow at least one attempt: the same statement holds
\* when heuristic.build_cards is not called with max_attempts = 0
C8_ValueErrorWhenAnAttemptIsAllowed ==
    (params.builder = "heuristic" => params.max_attempts >= 1)
        => C8_ConfigurationErrorsRaiseValueError

Planned == params.builder = "planner" /\ pc = "planned"

DemandP == params.T * params.m * params.n

\* C9: in near mode the numbers 1..remainder get base+1 uses and the numbers
\* remainder+1..R get base uses, with (base, remainder) = (P div R, P mod R) as
\* compute_near_uniform_targets gives them; the entries sum to P and differ by
\* at most 1
C9_NearDistribution ==
    (Planned /\ params.uniformity = "near") =>
        LET br == compute_near_uniform_targets(params.R, params.T, params.m, params.n)
        IN /\ br[1] * params.R + br[2] = DemandP
           /\ br[2] \in 0..(params.R - 1)
           /\ DOMAIN target_freqs = 1..params.R
           /\ \A x \in 1..br[2] : target_freqs[x] = br[1] + 1
           /\ \A x \in (br[2] + 1)..params.R : target_freqs[x] = br[1]
           /\ SumFn(target_freqs, 1..params.R) = DemandP
           /\ \A x, y \in 1..params.R : target_freqs[x] - target_freqs[y] <= 1

C9_Witness ==
    /\ Planned
    /\ params.uniformity = "near"
    /\ DemandP % params.R # 0
    /\ DemandP > params.R
    /\ params.R < params.m * params.n

\* C10: in strict mode every number of 1..R gets floor(P/R) uses and the call
\* does not raise; the counts sum to P when P mod R = 0 and to less than P
\* otherwise
C10_StrictDistribution ==
    (params.builder = "planner" /\ params.uniformity = "strict" /\ pc # "start") =>
        /\ pc = "planned"
        /\ DOMAIN target_freqs = 1..params.R
        /\ \A x \in 1..params.R :
             /\ target_freqs[x] * params.R <= DemandP
             /\ (target_freqs[x] + 1) * params.R > DemandP
        /\ DemandP % params.R = 0 => SumFn(target_freqs, 1..params.R) = DemandP
        /\ DemandP % params.R # 0 => SumFn(target_freqs, 1..params.R) < DemandP

C10_Witness ==
    /\ Planned
    /\ params.uniformity = "strict"
    /\ DemandP % params.R # 0
    /\ DemandP > params.R

\* the number of n-element subsets of 1..R
Subsets(R, n) == Cardinality({S \in SUBSET (1..R) : Cardinality(S) = n})

RowCapacityOk == params.T * params.m <= Subsets(params.R, params.n)

ColCapacityOk == params.T * params.n <= Subsets(params.R, params.m)

RowsRequested == \E i \in DOMAIN params.unique_scope : params.unique_scope[i] = "row_sets"

ColsRequested == \E i \in DOMAIN params.unique_scope : params.unique_scope[i] = "col_sets"

\* C11: check_uniqueness_capacity returns feasible = (row_sets not requested or
\* T*m <= C(R,n)) and (col_sets not requested or T*n <= C(R,m)); the answer
\* is the same for every list with the same set of entries; reasons holds one
\* entry per failing requested check, so it is empty exactly when feasible
C11_CapacityCheck ==
    (params.builder = "feasibility" /\ pc = "checked") =>
        /\ result.feasible = ((~RowsRequested \/ RowCapacityOk)
                              /\ (~ColsRequested \/ ColCapacityOk))
        /\ Len(result.reasons) = (IF RowsRequested /\ ~RowCapacityOk THEN 1 ELSE 0)
                                 + (IF ColsRequested /\ ~ColCapacityOk THEN 1 ELSE 0)
        /\ (result.reasons = <<>>) = result.feasible
        /\ \A other \in ListsUpTo(ScopeNames, MaxScopeLen) :
              Range(other) = Range(params.unique_scope) =>
                 check_uniqueness_capacity(params.R, params.T, params.m, params.n, other)
                    = result

\* both checks requested (one of them twice over), one fails on an exact fit
\* of the other
C11_Witness ==
    /\ params.builder = "feasibility"
    /\ pc = "checked"
    /\ params.unique_scope = <<"col_sets", "row_sets">>
    /\ params.T * params.n = Subsets(params.R, params.m)
    /\ ~RowCapacityOk
    /\ Len(result.reasons) = 1
    /\ ~result.feasible

Verified == params.builder = "verify" /\ pc = "verified"

\* the sorted row tuples and the sorted column tuples of a card list, one entry
\* per row and per column
AllRowTuples(cs) == {<<e, row_sets_of_card(cs[e[1]])[e[2]]>> : e \in RowEntries(cs)}

AllColTuples(cs) == {<<e, col_sets_of_card(cs[e[1]])[e[2]]>> : e \in ColEntries(cs)}

\* sum over the distinct tuples of (multiplicity - 1): entries minus distinct
RowCollisions(cs) ==
    Cardinality(AllRowTuples(cs)) - Cardinality({p[2] : p \in AllRowTuples(cs)})

ColCollisions(cs) ==
    Cardinality(AllColTuples(cs)) - Cardinality({p[2] : p \in AllColTuples(cs)})

\* C12: the 'uniqueness' section of verify reports row_set_collisions = sum
\* over the distinct sorted row tuples of (multiplicity - 1), and
\* col_set_collisions likewise, whatever unique_scope holds
C12_CollisionCountsIgnoreScope ==
    Verified =>
        /\ result.uniqueness.row_set_collisions = RowCollisions(cards)
        /\ result.uniqueness.col_set_collisions = ColCollisions(cards)

\* C12 as the code has it: each count is the sum of (multiplicity - 1) when its
\* set kind is in unique_scope and 0 when it is not, and the *_checked flags
\* say which of the two it is
C12_CollisionCountsOfCheckedScopes ==
    Verified =>
        /\ result.uniqueness = count_set_collisions(cards, params.unique_scope)
        /\ result.uniqueness.row_sets_checked = RowsRequested
        /\ result.uniqueness.col_sets_checked = ColsRequested
        /\ result.uniqueness.row_set_collisions =
              (IF RowsRequested THEN RowCollisions(cards) ELSE 0)
        /\ result.uniqueness.col_set_collisions =
              (IF ColsRequested THEN ColCollisions(cards) ELSE 0)

\* a row tuple occurs three times and a column tuple twice; only the columns
\* are in unique_scope
C12_Witness ==
    /\ Verified
    /\ ~RowsRequested
    /\ ColsRequested
    /\ RowCollisions(cards) >= 2
    /\ result.uniqueness.row_set_collisions = 0
    /\ result.uniqueness.col_set_collisions >= 2

\* the cell positions of a card list: card, row, column
CellPositions(cs) ==
    UNION {UNION {{<<t, i, j>> : j \in DOMAIN cs[t][i]} : i \in DOMAIN cs[t]} : t \in DOMAIN cs}

CellsHolding(cs, x) == {p \in CellPositions(cs) : cs[p[1]][p[2]][p[3]] = x}

\* C13: compute_frequencies returns a map that contains every number 1..R and
\* maps each of its keys to the number of cells holding it (0 for a number no
\* cell holds); its values sum to the number of cells; the card list handed in
\* is the same after the call
C13_FrequenciesCountCells ==
    /\ [](Verified =>
            /\ result.frequencies = compute_frequencies(cards, params.R)
            /\ 1..params.R \subseteq DOMAIN result.frequencies
            /\ \A x \in DOMAIN result.frequencies :
                  result.frequencies[x] = Cardinality(CellsHolding(cards, x))
            /\ \A x \in 1..params.R :
                  CellsHolding(cards, x) = {} => result.frequencies[x] = 0
            /\ SumFn(result.frequencies, DOMAIN result.frequencies)
                  = Cardinality(CellPositions(cards)))
    /\ [][params.builder = "verify" => cards' = cards]_vars

\* a number of 1..R that no cell holds, a cell value above R, and a number held
\* by several cells
C13_Witness ==
    /\ Verified
    /\ cards # <<>>
    /\ \E x \in 1..params.R : CellsHolding(cards, x) = {} /\ result.frequencies[x] = 0
    /\ \E x \in DOMAIN result.frequencies : x > params.R /\ result.frequencies[x] >= 2

Ascending(s) == \A i \in 1..(Len(s) - 1) : s[i] <= s[i + 1]

\* s and u hold the same values the same number of times
SameValues(s, u) ==
    /\ Len(s) = Len(u)
    /\ \A v \in Range(s) \cup Range(u) :
          Cardinality({i \in DOMAIN s : s[i] = v}) = Cardinality({i \in DOMAIN u : u[i] = v})

SetsDone == params.builder = "uniqueness" /\ pc = "done"

\* C14: for a non-empty rectangular m x n matrix row_sets_of_card returns m
\* tuples, the i-th being row i sorted ascending, and col_sets_of_card returns
\* n tuples, the j-th being column j sorted ascending; shuffling the values
\* inside the rows leaves the row sets as they are and shuffling them inside
\* the columns leaves the column sets as they are; col_sets_of_card of the
\* empty matrix is the empty list
C14_SortedRowAndColumnTuples ==
    SetsDone =>
        IF params.matrix = <<>>
        THEN result.col_sets = <<>>
        ELSE LET mx == params.matrix
                 m == Len(mx)
                 n == Len(mx[1])
             IN /\ Len(result.row_sets) = m
                /\ \A i \in 1..m :
                      /\ Ascending(result.row_sets[i])
                      /\ SameValues(result.row_sets[i], mx[i])
                /\ Len(result.col_sets) = n
                /\ \A j \in 1..n :
                      /\ Ascending(result.col_sets[j])
                      /\ SameValues(result.col_sets[j], [i \in 1..m |-> mx[i][j]])
                /\ params.kind = "rows" => result.shuffled_row_sets = result.row_sets
                /\ params.kind = "cols" => result.shuffled_col_sets = result.col_sets

\* a column that is not in ascending order, shuffled into another order
C14_Witness ==
    /\ SetsDone
    /\ params.kind = "cols"
    /\ Len(params.matrix) = 2
    /\ Len(params.matrix[1]) = 3
    /\ params.matrix[1][1] > params.matrix[2][1]
    /\ params.perms[1] = <<2, 1>>
    /\ params.matrix[1][2] < params.matrix[2][2]
    /\ result.shuffled_col_sets = result.col_sets
    /\ result.shuffled_row_sets # result.row_sets

BibdBuilt == params.builder = "bibd" /\ pc = "built"

\* no number above 1 divides both
Coprime(a, b) == \A q \in 2..Min2(a, b) : ~(a % q = 0 /\ b % q = 0)

BibdNotApplicable ==
    \/ params.uniformity = "strict" /\ DemandP % params.R # 0
    \/ params.R < params.m * params.n

\* C15: build_cards_bibd returns None exactly when (uniformity = 'strict' and
\* T*m*n mod R # 0) or R < m*n; otherwise it returns T cards of shape m x n
\* whose cell (t,i,j), counted from 0, is ((i*n + j + t*k) mod R) + 1 for one
\* step k coprime to R, and the cells of each card are pairwise distinct
\* numbers of 1..R
C15_BibdCards ==
    BibdBuilt =>
        /\ (result = None) = BibdNotApplicable
        /\ result # None =>
              /\ Len(result) = params.T
              /\ \A t \in 1..params.T :
                    /\ Len(result[t]) = params.m
                    /\ \A i \in 1..params.m : Len(result[t][i]) = params.n
                    /\ Range(Flatten(result[t])) \subseteq 1..params.R
                    /\ Cardinality(Range(Flatten(result[t]))) = params.m * params.n
              /\ \E k \in 1..params.R :
                    /\ Coprime(k, params.R)
                    /\ \A t \in 1..params.T : \A i \in 1..params.m : \A j \in 1..params.n :
                          result[t][i][j] =
                             (((i - 1) * params.n + (j - 1) + (t - 1) * k) % params.R) + 1

\* the first candidate step m*n + 1 = 3 shares a factor with R = 6 and so does
\* the next one
C15_Witness ==
    /\ BibdBuilt
    /\ params.R = 6
    /\ params.m * params.n = 2
    /\ params.T = 3
    /\ params.uniformity = "strict"
    /\ result # None
    /\ result[2][1][1] = 6

StrictBibdReturned ==
    BibdBuilt /\ params.uniformity = "strict" /\ result # None

\* the cycle of card offsets closes (T is a multiple of R), or every card holds
\* every number once (m*n = R)
CyclesClose == params.T % params.R = 0 \/ params.m * params.n = params.R

\* C16 as stated: whenever build_cards_bibd is called in strict mode and
\* returns a card list, every number 1..R occurs exactly T*m*n/R times over the
\* returned cards
C16_StrictCountsEqual ==
    StrictBibdReturned =>
        \A x \in 1..params.R : CountIn(result, x) = DemandP \div params.R

\* C16 amended: a strict-mode card list of build_cards_bibd has T*m*n cells
\* over 1..R; every number occurs exactly T*m*n/R times when T is a multiple of
\* R or m*n = R
C16_StrictCountsEqualWhenCyclesClose ==
    StrictBibdReturned =>
        /\ SumFn([x \in 1..params.R |-> CountIn(result, x)], 1..params.R) = DemandP
        /\ CyclesClose =>
              \A x \in 1..params.R : CountIn(result, x) = DemandP \div params.R

\* T = R = 4 cards of two cells each: every number is used twice
C16_Witness ==
    /\ StrictBibdReturned
    /\ params.T = 4
    /\ params.R = 4
    /\ params.m * params.n = 2
    /\ \A x \in 1..4 : CountIn(result, x) = 2

StagedReturned == params.builder = "staged" /\ pc = "returned"

StagedCards == StagedReturned /\ result # None

\* C17: in every card returned by build_cards_staged no two horizontally
\* adjacent cells of a row differ by exactly 1 and no two vertically adjacent
\* cells of a column differ by exactly 1, whatever the random source draws
C17_NoAdjacentNeighbours ==
    StagedCards =>
        \A t \in DOMAIN result : \A i \in DOMAIN result[t] : \A j \in DOMAIN result[t][i] :
            /\ j > 1 => Abs(result[t][i][j] - result[t][i][j - 1]) # 1
            /\ i > 1 => Abs(result[t][i][j] - result[t][i - 1][j]) # 1

\* a 2 x 2 card whose second row had to be turned round: 5 under 1 and 2 under
\* 4, where the first permutation would put 2 under 1
C17_Witness ==
    /\ StagedCards
    /\ params.m = 2
    /\ params.n = 2
    /\ result[1] = <<<<1, 4>>, <<5, 2>>>>

BothScopes == {"row_sets", "col_sets"} \subseteq params.unique_scope

\* C18: build_cards_staged returns None or exactly T cards; when it returns
\* cards and unique_scope holds row_sets and col_sets, no sorted row tuple
\* occurs twice over all cards and no sorted column tuple occurs twice over
\* all cards, for every m >= 1 and n >= 1
C18_StagedUniqueRowsAndColumns ==
    StagedReturned =>
        /\ result = None \/ Len(result) = params.T
        /\ (result # None /\ BothScopes) =>
              NoRowSetTwice(result) /\ NoColSetTwice(result)

Hashed == params.builder = "params_hash" /\ pc = "hashed"

\* the fields the claim lists: R, T, m, n, unique_scope, uniformity,
\* position_balance, timeout, swap-iteration count, parallel flags, seed engine
\* and seed value
ListedFields ==
    {"R", "T", "m", "n", "unique_scope", "uniformity", "position_balance",
     "build_timeout_sec", "swap_iterations", "parallel", "parallelism",
     "seed.engine", "seed.value"}

HasField(item, map) ==
    IF item = "seed.engine" THEN "seed" \in DOMAIN map /\ "engine" \in DOMAIN map["seed"]
    ELSE IF item = "seed.value" THEN "seed" \in DOMAIN map /\ "value" \in DOMAIN map["seed"]
    ELSE item \in DOMAIN map

FieldOf(item, map) ==
    IF item = "seed.engine" THEN map["seed"]["engine"]
    ELSE IF item = "seed.value" THEN map["seed"]["value"]
    ELSE map[item]

\* two maps agree on a set of fields: each field is missing in both or has the
\* same value in both, unique_scope taken as the set of its entries
AgreeOn(fields, a, b) ==
    \A item \in fields :
        /\ HasField(item, a) = HasField(item, b)
        /\ HasField(item, a) =>
              IF item = "unique_scope"
              THEN Range(FieldOf(item, a)) = Range(FieldOf(item, b))
              ELSE FieldOf(item, a) = FieldOf(item, b)

\* C20 as stated: two resolved maps that agree on R, T, m, n, unique_scope (up
\* to order and repetition), uniformity, position_balance, timeout,
\* swap-iteration count, parallel flags, seed engine and seed value get the same
\* hash whatever their other keys are
C20_HashOfListedFieldsOnly ==
    (Hashed /\ AgreeOn(ListedFields, params.first, params.second)) =>
        result.first = result.second

\* C20 amended: two resolved maps that agree on the fields of include, which
\* are the listed ones and allow_best_effort, get the same hash whatever their
\* other keys are; reordering or repeating the entries of a unique_scope list
\* does not change the hash
C20_HashOfIncludeListOnly ==
    (Hashed /\ AgreeOn(include, params.first, params.second)) =>
        result.first = result.second

\* two maps with one hash: they differ in log_level, in a key of the seed
\* section that is not in include, and in the order and repetition of
\* unique_scope
C20_Witness ==
    /\ Hashed
    /\ params.first.log_level = "INFO"
    /\ params.second.log_level = "DEBUG"
    /\ "seed" \in DOMAIN params.first
    /\ "seed" \in DOMAIN params.second
    /\ "note" \in DOMAIN params.first.seed
    /\ "note" \notin DOMAIN params.second.seed
    /\ params.first.unique_scope = <<"row_sets", "col_sets">>
    /\ params.second.unique_scope = <<"col_sets", "row_sets">>
    /\ "allow_best_effort" \in DOMAIN params.first
    /\ AgreeOn(include, params.first, params.second)
    /\ result.first = result.second

\* an attempt of heuristic.build_cards or of UniversalCardBuilder._build_cards
\* is in progress, before and after the step
WithinAttempt ==
    /\ params.builder \in {"heuristic", "universal"}
    /\ pc \in {"card_loop", "card_try", "attempt_end"}

\* the step accepts a card: the card list grows by one card at its end
AcceptsCard ==
    /\ Len(cards') = Len(cards) + 1
    /\ SubSeq(cards', 1, Len(cards)) = cards

\* C21: in every state of an attempt every entry of the budget map is >= 0 and
\* <= its planner value; within an attempt the map changes only when a card is
\* accepted, and then each entry goes down by 1 for a number of that card and
\* stays as it is for every other number; no entry goes up within an attempt
C21_BudgetInvariant ==
    /\ [](WithinAttempt =>
             /\ DOMAIN remaining = 1..params.R
             /\ \A x \in 1..params.R :
                   remaining[x] >= 0 /\ remaining[x] <= target_freqs[x])
    /\ [][WithinAttempt =>
             /\ \A x \in 1..params.R : remaining'[x] <= remaining[x]
             /\ remaining' # remaining => AcceptsCard
             /\ AcceptsCard =>
                   \A x \in 1..params.R :
                      remaining'[x] =
                         remaining[x] - CountIn(<<cards'[Len(cards')]>>, x)]_vars

\* the universal builder has accepted the first of two cards: every number of
\* the card has one use less than planned, and uses are left
C21_Witness ==
    /\ params.builder = "universal"
    /\ pc = "card_loop"
    /\ params.T = 2
    /\ Len(cards) = 1
    /\ \A x \in 1..params.R :
          remaining[x] = target_freqs[x] - CountIn(cards, x)
    /\ \E x \in 1..params.R : remaining[x] >= 1 /\ remaining[x] < target_freqs[x]

\* a try of the per-card restart loop of heuristic.build_cards is under way
HeuristicTry == params.builder = "heuristic" /\ pc = "card_try"

\* the three registries of the attempt
registries == <<seen_row_sets, seen_col_sets, seen_card_hashes>>

\* C22: a try of heuristic.build_cards that does not accept a card (no row
\* found, no column permutation found, or a row-set, column-set or card-hash
\* collision) leaves the budget map, the three registries and the card list as
\* they were; within an attempt an accepted card is never changed or dropped,
\* the registries only grow and only in the step that accepts a card, and the
\* registry of a scope that is not in unique_scope stays empty
C22_FailedTryChangesNothing ==
    /\ [][HeuristicTry /\ ~AcceptsCard => run_state' = run_state]_vars
    /\ [][params.builder = "heuristic" /\ WithinAttempt =>
             /\ Len(cards') >= Len(cards)
             /\ \A t \in 1..Len(cards) : cards'[t] = cards[t]
             /\ seen_row_sets \subseteq seen_row_sets'
             /\ seen_col_sets \subseteq seen_col_sets'
             /\ seen_card_hashes \subseteq seen_card_hashes'
             /\ registries' # registries => AcceptsCard]_vars
    /\ [](params.builder = "heuristic" =>
             /\ "row_sets" \notin params.unique_scope => seen_row_sets = {}
             /\ "col_sets" \notin params.unique_scope => seen_col_sets = {})

\* the second card is in a later try after a failed one; the first card, the
\* row registry filled by it and the budget it left are still in place, and
\* the column registry, whose scope was not requested, is empty
C22_Witness ==
    /\ HeuristicTry
    /\ card_try >= 1
    /\ params.unique_scope = {"row_sets"}
    /\ Len(cards) = 1
    /\ seen_row_sets = Range(row_sets_of_card(cards[1]))
    /\ seen_col_sets = {}
    /\ seen_card_hashes = {matrix_hash(cards[1])}
    /\ \A x \in 1..params.R : remaining[x] = target_freqs[x] - CountIn(cards, x)

\* a call of UniversalCardBuilder.build is between its argument checks and its end
UniversalCall == params.builder = "universal"

\* C23: every row drawn by UniversalCardBuilder._choose_row and placed in a
\* card holds exactly n distinct numbers of 1..R, for every n >= 1, so that
\* every card the builder accepts or returns has m rows of n cells
C23_RowsOfNCells ==
    UniversalCall =>
        \A t \in DOMAIN cards :
            /\ Len(cards[t]) = params.m
            /\ \A i \in DOMAIN cards[t] :
                  /\ Len(cards[t][i]) = params.n
                  /\ Range(cards[t][i]) \subseteq 1..params.R
                  /\ Cardinality(Range(cards[t][i])) = params.n

\* the step hands the failure of _build_single_card (None) to the card loop
\* of _build_cards, which ends the attempt
FailurePropagated ==
    /\ UniversalCall
    /\ pc = "card_try"
    /\ pc' = "attempt_end"
    /\ ~success'

\* C24: _build_single_card hands failure (None) to the attempt loop of
\* _build_cards only after all of its max_row_attempts whole-card restarts are
\* used up; a row that cannot be chosen restarts the card like any other
\* failure
C24_FailureOnlyAfterAllRestarts ==
    [][FailurePropagated => card_try >= build_args.max_row_attempts]_vars

\* the column step of heuristic.build_cards applies to the call
ColumnStepApplies ==
    /\ params.builder = "heuristic"
    /\ "col_sets" \in params.unique_scope
    /\ params.m >= 2

\* two cells of one column in consecutive rows differ by exactly 1
VerticalNeighbours(card) ==
    \E i \in 1..(Len(card) - 1) : \E j \in DOMAIN card[i] :
        Abs(card[i][j] - card[i + 1][j]) = 1

\* the sorted column tuples of the cards before index t
EarlierColSets(t) ==
    UNION {Range(col_sets_of_card(cards[s])) : s \in 1..(t - 1)}

\* C25 as stated: with col_sets in unique_scope and m >= 2 every card accepted
\* by heuristic.build_cards has no two vertically adjacent cells that differ
\* by exactly 1, and none of its column sets is a column set of an earlier card
C25_NoVerticalNeighbours ==
    ColumnStepApplies =>
        \A t \in DOMAIN cards :
            /\ ~VerticalNeighbours(cards[t])
            /\ Range(col_sets_of_card(cards[t])) \cap EarlierColSets(t) = {}

\* C25 amended: with col_sets in unique_scope and m >= 2 the column-set
\* registry holds the column sets of the cards accepted so far, and a card is
\* accepted only if none of its column sets is in the registry; nothing is
\* asked of vertically adjacent cells
C25_ColumnSetsAbsentFromRegistry ==
    /\ [](ColumnStepApplies /\ WithinAttempt =>
             seen_col_sets = EarlierColSets(Len(cards) + 1))
    /\ [][ColumnStepApplies /\ WithinAttempt /\ AcceptsCard =>
             Range(col_sets_of_card(cards'[Len(cards')])) \cap seen_col_sets = {}]_vars

\* a second card was accepted after the column step, the registry was not
\* empty when it was built, and the card has two vertically adjacent cells
\* that differ by exactly 1
C25_Witness ==
    /\ ColumnStepApplies
    /\ pc = "card_loop"
    /\ Len(cards) = 2
    /\ VerticalNeighbours(cards[2])
    /\ Range(col_sets_of_card(cards[2])) \cap Range(col_sets_of_card(cards[1])) = {}
    /\ seen_col_sets = EarlierColSets(3)

\* the number of positions i of the row whose neighbour i + 1 differs by d
PairsDiffering(row, d) ==
    Cardinality({i \in 1..(Len(row) - 1) : Abs(row[i] - row[i + 1]) = d})

\* the penalty of an ordering: 2 for each horizontally adjacent pair that
\* differs by 1, 1 for each that differs by 2 and, with anchors, 1 for each
\* position whose value differs by 1 from the anchor of that position
PenaltyOf(row, anchors) ==
    2 * PairsDiffering(row, 1) + PairsDiffering(row, 2)
    + Cardinality({j \in DOMAIN row \cap DOMAIN anchors : Abs(row[j] - anchors[j]) = 1})

Optimized == params.builder = "optimizer" /\ pc = "optimized"

\* the penalties of the input ordering and of the orderings shuffled
PenaltiesSeen ==
    {PenaltyOf(params.row, params.anchors)}
    \cup {PenaltyOf(opt_shuffled[k], params.anchors) : k \in DOMAIN opt_shuffled}

\* the result is a permutation of the row and its penalty is the smallest of
\* the penalties of the input ordering and of the orderings shuffled
OptimizeResultIsBestSeen ==
    Optimized =>
        /\ Len(result) = Len(params.row)
        /\ \A v \in 1..OptMaxValue : Occurrences(result, v) = Occurrences(params.row, v)
        /\ PenaltyOf(result, params.anchors) \in PenaltiesSeen
        /\ \A p \in PenaltiesSeen : PenaltyOf(result, params.anchors) <= p
        /\ PenaltyOf(result, params.anchors) <= PenaltyOf(params.row, params.anchors)
        /\ result \in optimize(params.row, params.anchors)

\* no ordering is shuffled once the best penalty is 0
OptimizeStopsAtZero ==
    [][params.builder = "optimizer" /\ pc = "shuffle_loop" /\ opt_best_score = 0
          => opt_shuffled' = opt_shuffled]_vars

\* C26: RowOptimizer.optimize(row, anchors, rng) returns a permutation of row
\* whose penalty is the minimum over the input ordering and the orderings it
\* shuffled, hence at most the penalty of the input ordering, and it stops
\* shuffling as soon as penalty 0 is reached
C26_OptimizeReturnsBestAndStopsAtZero ==
    /\ []OptimizeResultIsBestSeen
    /\ OptimizeStopsAtZero

\* the preconditions of C27 on the arguments of heuristic.build_cards
FastPathCall ==
    /\ params.builder = "heuristic"
    /\ params.unique_scope = {}
    /\ params.R >= params.m * params.n
    /\ params.max_attempts >= 1
    /\ \/ params.uniformity = "near"
       \/ /\ params.uniformity = "strict"
          /\ (params.T * params.m * params.n) % params.R = 0

\* the cards the attempt still has to build
CardsToBuild == params.T - Len(cards)

\* with c cards still to build the budget sums to c*m*n and no entry exceeds c
BudgetFitsCardsToBuild ==
    /\ BudgetLeft = CardsToBuild * params.m * params.n
    /\ \A x \in 1..params.R : remaining[x] >= 0 /\ remaining[x] <= CardsToBuild

\* no attempt of a fast-path call fails or is followed by another attempt
FastPathOnCourse ==
    FastPathCall =>
        /\ attempt = 0
        /\ success
        /\ pc # "RuntimeError"
        /\ pc \in {"card_loop", "attempt_end", "returned"} => BudgetFitsCardsToBuild

\* C27: with an empty unique_scope, R >= m*n, max_attempts >= 1 and near mode
\* or strict mode with T*m*n mod R = 0, heuristic.build_cards never dead-ends:
\* no attempt fails, no attempt after attempt 0 is started and RuntimeError is
\* never raised; between the cards of the attempt the budget sums to c*m*n and
\* has no entry above c, c being the number of cards still to build; and
\* attempt 0, once it has its random source, goes on to return T cards with
\* the budget used up
C27_FastPathNeverDeadEnds ==
    /\ []FastPathOnCourse
    /\ (FastPathCall /\ pc = "card_loop")
          ~> (Returned /\ attempt = 0 /\ Len(result) = params.T /\ BudgetLeft = 0)

\* attempt 0 of a fast-path call in near mode has built the first of three
\* cards from a budget with unequal entries, and every entry is at most 2
C27_Witness ==
    /\ FastPathCall
    /\ params.uniformity = "near"
    /\ params.T = 3
    /\ pc = "card_loop"
    /\ Len(cards) = 1
    /\ \E x, y \in 1..params.R : target_freqs[x] # target_freqs[y]
    /\ BudgetFitsCardsToBuild

\* the preconditions of C28 on the arguments of heuristic.build_cards
StrictShortCall ==
    /\ params.builder = "heuristic"
    /\ params.uniformity = "strict"
    /\ params.R >= params.m * params.n
    /\ (params.T * params.m * params.n) % params.R # 0

\* the numbers that still have budget
WithBudget == {x \in 1..params.R : remaining[x] > 0}

\* nothing is returned, an attempt never ends in success, and RuntimeError
\* comes only after max_attempts attempts
StrictShortNeverReturns ==
    StrictShortCall =>
        /\ ~Returned
        /\ result = <<>>
        /\ pc = "attempt_end" => ~success
        /\ pc = "RuntimeError" => attempt = params.max_attempts

\* an attempt ends only where a card finds fewer than m*n numbers with budget
StrictShortAttemptsEndByShortage ==
    [][StrictShortCall /\ pc # "attempt_end" /\ pc' = "attempt_end" =>
          /\ pc = "card_loop"
          /\ Len(cards) < params.T
          /\ Cardinality(WithBudget) < params.m * params.n
          /\ ~success']_vars

\* C28 as stated: with uniformity = 'strict' and T*m*n mod R # 0 (R >= m*n)
\* heuristic.build_cards never returns a card list; the planner's budget sums
\* to less than T*m*n; every attempt ends because a card finds fewer than m*n
\* numbers with budget left, and ends as a failure; and the call ends in
\* RuntimeError after max_attempts attempts
C28_StrictShortRaisesRuntimeError ==
    /\ []StrictShortNeverReturns
    /\ [](StrictShortCall /\ pc \notin {"start", "ValueError"} =>
             SumFn(target_freqs, 1..params.R) < params.T * params.m * params.n)
    /\ StrictShortAttemptsEndByShortage
    /\ (StrictShortCall /\ (pc = "card_loop" \/ (pc = "attempt_loop" /\ params.max_attempts = 0)))
          ~> (pc = "RuntimeError" /\ attempt = params.max_attempts /\ result = <<>>)

\* an attempt ends before its T cards are built, as a failure: at a card that
\* finds fewer than m*n numbers with budget or, with a unique_scope, at a
\* card whose tries were all rejected
StrictShortAttemptsFail ==
    [][StrictShortCall /\ pc # "attempt_end" /\ pc' = "attempt_end" =>
          /\ ~success'
          /\ Len(cards) < params.T
          /\ \/ pc = "card_loop" /\ Cardinality(WithBudget) < params.m * params.n
             \/ pc = "card_try" /\ params.unique_scope # {}]_vars

\* C28 amended: with uniformity = 'strict' and T*m*n mod R # 0 (R >= m*n)
\* heuristic.build_cards never returns a card list; the planner's budget sums
\* to less than T*m*n; every attempt fails before its T cards are built, at a
\* card short of numbers with budget or, when unique_scope is not empty, at
\* a card whose tries are used up; and the call, once its attempts run or
\* when it has none to run, ends in RuntimeError after max_attempts attempts
C28_StrictShortEveryAttemptFails ==
    /\ []StrictShortNeverReturns
    /\ [](StrictShortCall /\ pc \notin {"start", "ValueError"} =>
             SumFn(target_freqs, 1..params.R) < params.T * params.m * params.n)
    /\ StrictShortAttemptsFail
    /\ (StrictShortCall /\ (pc = "card_loop" \/ (pc = "attempt_loop" /\ params.max_attempts = 0)))
          ~> (pc = "RuntimeError" /\ attempt = params.max_attempts /\ result = <<>>)

\* an attempt of a strict call with T*m*n mod R # 0 failed at a card whose
\* tries were all rejected although enough numbers had budget left
C28_Witness ==
    /\ StrictShortCall
    /\ pc = "attempt_end"
    /\ ~success
    /\ "row_sets" \in params.unique_scope
    /\ Len(cards) >= 1
    /\ Len(cards) < params.T
    /\ Cardinality(WithBudget) >= params.m * params.n
HeuristicCall == params.builder = "heuristic"

\* the call has returned or raised
Terminated == pc \in {"returned", "RuntimeError", "ValueError"}

\* positions of one attempt, in the order the code passes them: the head of
\* the attempt, then for each card the head of the card loop and its tries,
\* then the end of the attempt
StagesPerCard == CardTries + 3

StagesPerAttempt == params.T * StagesPerCard + 5

Stage ==
    CASE pc = "start"        -> 0
      [] pc = "attempt_loop" -> 1
      [] pc = "card_loop"    -> 2 + Len(cards) * StagesPerCard
      [] pc = "card_try"     -> 3 + Len(cards) * StagesPerCard + card_try
      [] pc = "attempt_end"  -> StagesPerAttempt - 2
      [] OTHER               -> StagesPerAttempt - 1

\* the loop counters of the call read as one number: attempts first, then
\* cards, then tries
Progress == attempt * StagesPerAttempt + Stage

\* the counters stay within their ranges
CountersInRange ==
    HeuristicCall =>
        /\ attempt \in 0..params.max_attempts
        /\ Len(cards) \in 0..params.T
        /\ card_try \in 0..CardTries
        /\ Progress \in 0..((params.max_attempts + 1) * StagesPerAttempt)

\* every step of the call advances the counters
EveryStepAdvances == [][HeuristicCall => Progress' > Progress]_vars

BibdReturnedCards == BibdBuilt /\ result # None

\* what the construction does give: two cards of a returned list are
\* identical cell by cell exactly when their indices differ by a multiple
\* of R
BibdCardsRepeatWithPeriodR ==
    BibdReturnedCards =>
        \A s, t \in 1..params.T :
            (result[s] = result[t]) <=> ((s - t) % params.R = 0)

\* C30: no two cards of a list returned by build_cards_bibd are identical
\* cell by cell, for all T, T > R included
C30_BibdCardsDistinct ==
    BibdReturnedCards =>
        \A s, t \in 1..params.T : s # t => result[s] # result[t]
====
